---- MODULE Spec2Model ----
(***************************************************************************)
(* Expense Tracker backend: the expense ledger (routes/expenses), the      *)
(* budget tracker (routes/budget) and the Budget model's derived fields,   *)
(* over a document store whose single-document operations are atomic.      *)
(***************************************************************************)
EXTENDS Integers, Sequences, FiniteSets, TLC

(***************************************************************************)
(* JavaScript numbers.  Amounts, limits and spent are whole currency       *)
(* units (integers).  The derived fields are IEEE-754 doubles: a derived   *)
(* value is a record [nan, v], NaN being what arithmetic on an absent      *)
(* (undefined) field yields.                                               *)
(***************************************************************************)
JsNum(v) == [nan |-> FALSE, v |-> v]
NaN == [nan |-> TRUE, v |-> 0]

Max(a, b) == IF a >= b THEN a ELSE b
Abs(a) == IF a < 0 THEN -a ELSE a

\* Width of a double's significand: one leading bit and four 13-bit limbs.
MantissaBits == 53
LimbBits == 13
LimbBase == 8192

Zeros(n) == [i \in 1..n |-> 0]

RECURSIVE Pow2(_)
Pow2(n) == IF n = 0 THEN 1 ELSE 2 * Pow2(n - 1)

\* The w-bit binary numeral of v, most significant bit first.
BitsOf(v, w) == [j \in 1..w |-> (v \div Pow2(w - j)) % 2]

\* The number a numeral of at most LimbBits bits denotes.
RECURSIVE LimbOfBits(_)
LimbOfBits(bits) ==
    IF Len(bits) = 0 THEN 0
    ELSE 2 * LimbOfBits(SubSeq(bits, 1, Len(bits) - 1)) + bits[Len(bits)]

\* The number a numeral of at most 2 * LimbBits bits denotes.
IntOfBits(bits) ==
    LET n == Len(bits)
    IN  IF n <= LimbBits THEN LimbOfBits(bits)
        ELSE LimbOfBits(SubSeq(bits, 1, n - LimbBits)) * LimbBase
                 + LimbOfBits(SubSeq(bits, n - LimbBits + 1, n))

AnyOne(bits) == \E i \in 1..Len(bits) : bits[i] = 1

\* bits + 1 on a numeral, same width; all ones wraps to all zeros.
IncBits(bits) ==
    LET n  == Len(bits)
        zs == {i \in 1..n : bits[i] = 0}
    IN  IF zs = {} THEN Zeros(n)
        ELSE LET k == CHOOSE i \in zs : \A j \in zs : j <= i
             IN  [i \in 1..n |-> IF i < k THEN bits[i]
                                 ELSE IF i = k THEN 1 ELSE 0]

\* The exponent e with 2^e <= s/l < 2^(e+1), for s, l > 0.
RECURSIVE NormExp(_, _)
NormExp(s, l) ==
    IF s >= 2 * l THEN 1 + NormExp(s, 2 * l)
    ELSE IF s < l THEN NormExp(2 * s, l) - 1
    ELSE 0

\* A positive double: [m, pt], value 0.m1 m2 ... m53 (binary) * 2^pt, m1 = 1.
\* Round to nearest, ties to even: `lead` holds the 53 leading bits, `round`
\* the next bit, `sticky` whether anything non-zero follows.
RoundToDouble(lead, round, sticky, pt) ==
    IF round = 1 /\ (sticky \/ lead[MantissaBits] = 1)
    THEN IF AnyOne(IncBits(lead))
         THEN [m |-> IncBits(lead), pt |-> pt]
         ELSE [m |-> <<1>> \o Zeros(MantissaBits - 1), pt |-> pt + 1]
    ELSE [m |-> lead, pt |-> pt]

\* The double nearest to s / l, for integers 0 < s, l < 2^17: long division,
\* one limb of the quotient at a time.
DivDouble(s, l) ==
    LET e  == NormExp(s, l)
        sn == IF e < 0 THEN s * Pow2(-e) ELSE s
        ln == IF e > 0 THEN l * Pow2(e) ELSE l
        r0 == sn - ln
        q1 == (r0 * LimbBase) \div ln
        r1 == (r0 * LimbBase) % ln
        q2 == (r1 * LimbBase) \div ln
        r2 == (r1 * LimbBase) % ln
        q3 == (r2 * LimbBase) \div ln
        r3 == (r2 * LimbBase) % ln
        q4 == (r3 * LimbBase) \div ln
        r4 == (r3 * LimbBase) % ln
        rb == IF 2 * r4 >= ln THEN 1 ELSE 0
    IN  RoundToDouble(<<1>> \o BitsOf(q1, LimbBits) \o BitsOf(q2, LimbBits)
                           \o BitsOf(q3, LimbBits) \o BitsOf(q4, LimbBits),
                      rb,
                      2 * r4 - rb * ln # 0,
                      e + 1)

\* The double nearest to x * 100: the exact 60-bit product, limb by limb,
\* rounded to 53 bits.
Mul100Double(x) ==
    LET f1 == LimbOfBits(SubSeq(x.m, 2, 14))
        f2 == LimbOfBits(SubSeq(x.m, 15, 27))
        f3 == LimbOfBits(SubSeq(x.m, 28, 40))
        f4 == LimbOfBits(SubSeq(x.m, 41, 53))
        t4 == f4 * 100
        t3 == f3 * 100 + t4 \div LimbBase
        t2 == f2 * 100 + t3 \div LimbBase
        t1 == f1 * 100 + t2 \div LimbBase
        t0 == 100 + t1 \div LimbBase
        p  == BitsOf(t0, 8) \o BitsOf(t1 % LimbBase, LimbBits)
                  \o BitsOf(t2 % LimbBase, LimbBits)
                  \o BitsOf(t3 % LimbBase, LimbBits)
                  \o BitsOf(t4 % LimbBase, LimbBits)
        z  == IF p[1] = 1 THEN 0 ELSE 1
    IN  RoundToDouble(SubSeq(p, z + 1, z + MantissaBits),
                      p[z + MantissaBits + 1],
                      AnyOne(SubSeq(p, z + MantissaBits + 2, Len(p))),
                      x.pt + 7 - z)

\* Math.round of the double sign * x (x # 0, |x| < 2^26): floor(value + 0.5).
MathRound(sign, x) ==
    IF x.pt < 0 THEN 0
    ELSE LET ip   == IntOfBits(SubSeq(x.m, 1, x.pt))
             half == x.m[x.pt + 1]
             rest == AnyOne(SubSeq(x.m, x.pt + 2, MantissaBits))
         IN  IF sign > 0 THEN ip + half
             ELSE -(ip + (IF half = 1 /\ rest THEN 1 ELSE 0))

\* Math.round((spent / limit) * 100) for integers spent and limit > 0.
RoundPercent(spent, limit) ==
    IF spent = 0 THEN 0
    ELSE MathRound(IF spent < 0 THEN -1 ELSE 1,
                   Mul100Double(DivDouble(Abs(spent), limit)))

(***************************************************************************)
(* Bounds of the model.                                                    *)
(***************************************************************************)
\* Requests handled concurrently.
MaxProcs == 2
\* Requests accepted in one run.
MaxRequests == 3
\* Amounts are 1..MaxAmount, limits 0..MaxLimit.
MaxAmount == 2
MaxLimit == 1

Procs == 1..MaxProcs
Users == {"u1", "u2"}
Amounts == 1..MaxAmount
Limits == 0..MaxLimit

(***************************************************************************)
(* Dates and month keys.  A date is a calendar date in server-local time.  *)
(***************************************************************************)
MkDate(y, m, d) == [y |-> y, m |-> m, d |-> d]
Dates == {MkDate(2024, 1, 15), MkDate(2024, 2, 10)}
\* The server clock, held fixed.
Now == MkDate(2024, 1, 20)

Digits == <<"0", "1", "2", "3", "4", "5", "6", "7", "8", "9">>
Digit(n) == Digits[n + 1]
\* String(n).padStart(2, '0') for 0 <= n <= 99.
PadStart2(n) == IF n < 10 THEN "0" \o Digit(n)
                ELSE Digit(n \div 10) \o Digit(n % 10)
\* `${n}` for 1000 <= n <= 9999.
YearString(n) == Digit(n \div 1000) \o Digit((n \div 100) % 10)
                     \o Digit((n \div 10) % 10) \o Digit(n % 10)
\* `${d.getFullYear()}-${String(d.getMonth() + 1).padStart(2, '0')}`
MonthOf(date) == YearString(date.y) \o "-" \o PadStart2(date.m)
getCurrentMonth == MonthOf(Now)
\* The month strings requests name.
Months == {MonthOf(d) : d \in Dates}

\* A faulty Date: a month index outside 0..11 wraps without carrying into
\* the year.
DateNoCarry(y, monthIndex, d) ==
    [y |-> y, m |-> (monthIndex % 12) + 1, d |-> d]

\* new Date(y, monthIndex, d) for a day d every month has: a month index
\* outside 0..11 carries into the year.
DateNormalize(y, monthIndex, d) ==
    MkDate(y + (monthIndex \div 12), (monthIndex % 12) + 1, d)

\* The years a month key may name where one is parsed.
ParseYears == 2022..2025
\* month.split('-') and parseInt of both parts, for a key MonthOf wrote.
ParseMonth(s) ==
    CHOOSE ym \in [y : ParseYears, m : 1..12] : MonthOf(ym) = s

\* An optional input is a set holding at most one value.
\* The days of month m (1..12) of year y.
DaysInMonth(y, m) ==
    IF m = 2
    THEN IF (y % 4 = 0 /\ y % 100 # 0) \/ y % 400 = 0 THEN 29 ELSE 28
    ELSE IF m \in {4, 6, 9, 11} THEN 30 ELSE 31
\* A date may carry a time of day, in milliseconds since local midnight.
MsPerDay == 86400000
MsOf(date) == IF "ms" \in DOMAIN date THEN date.ms ELSE 0
\* getTime() orders the dates of one time zone by their day, then by their
\* time of day.
DayValue(date) == ((date.y * 12) + (date.m - 1)) * 31 + (date.d - 1)
TimeLess(a, b) ==
    \/ DayValue(a) < DayValue(b)
    \/ DayValue(a) = DayValue(b) /\ MsOf(a) < MsOf(b)
TimeEqual(a, b) == DayValue(a) = DayValue(b) /\ MsOf(a) = MsOf(b)
\* new Date(y, m - 1, 1): the first instant of month m.
StartOfMonth(y, m) == [y |-> y, m |-> m, d |-> 1, ms |-> 0]
\* new Date(y, m, 0, 23, 59, 59): day 0 of the next month is the last day of
\* month m; the time is 23:59:59.000.
EndOfMonth(y, m) ==
    [y |-> y, m |-> m, d |-> DaysInMonth(y, m),
     ms |-> ((23 * 60 + 59) * 60 + 59) * 1000]
\* { $gte: startDate, $lte: endDate }
InDateRange(date, startDate, endDate) ==
    /\ ~TimeLess(date, startDate)
    /\ ~TimeLess(endDate, date)

Opt(S) == {{}} \cup {{v} : v \in S}
The(s) == CHOOSE v \in s : TRUE
\* a || b of JavaScript, `a` optional and never falsy when present.
OrElse(s, dflt) == IF s = {} THEN dflt ELSE The(s)

(***************************************************************************)
(* The Budget model: documents [id, userId, month, spent] with an optional *)
(* `limit` field, and the derived (virtual) fields.                        *)
(***************************************************************************)
HasLimit(b) == "limit" \in DOMAIN b

remaining(b) ==
    IF HasLimit(b) THEN JsNum(Max(0, b.limit - b.spent)) ELSE NaN

spendingPercentage(b) ==
    IF ~HasLimit(b) THEN NaN
    ELSE IF b.limit = 0 THEN JsNum(0)
    ELSE JsNum(RoundPercent(b.spent, b.limit))

\* A comparison with NaN is false.
JsGeq(n, k) == ~n.nan /\ n.v >= k

status(b) ==
    LET percentage == spendingPercentage(b)
    IN  IF JsGeq(percentage, 90) THEN "danger"
        ELSE IF JsGeq(percentage, 80) THEN "warning"
        ELSE "safe"

\* toJSON with { virtuals: true }: the stored fields and the derived ones.
BudgetJson(b) ==
    [f \in DOMAIN b \cup {"remaining", "spendingPercentage", "status"} |->
        IF f = "remaining" THEN remaining(b)
        ELSE IF f = "spendingPercentage" THEN spendingPercentage(b)
        ELSE IF f = "status" THEN status(b)
        ELSE b[f]]

(***************************************************************************)
(* The document store.  Every operation below is one atomic step.          *)
(***************************************************************************)
\* Expense.findOne({ _id: id, userId })
\* An _id is a natural number; 0 stands for a path parameter that Mongoose
\* cannot cast to an ObjectId (one that is not 24 hex digits), for which
\* findOne rejects with a CastError.
ValidObjectId(id) == id >= 1
FindExpense(exps, id, u) == {e \in exps : e.id = id /\ e.userId = u}
\* Expense.findById(id)
ExpenseById(exps, id) == {e \in exps : e.id = id}
\* Budget.findOne({ userId, month }): a set holding at most one document.
FindBudget(rows, u, m) ==
    LET hits == {b \in rows : b.userId = u /\ b.month = m}
    IN  IF hits = {} THEN {} ELSE {CHOOSE b \in hits : TRUE}
BudgetById(rows, id) == {b \in rows : b.id = id}

\* A store without the unique index: no insert is rejected.
NoUniqueIndex(rows, u, m) == FALSE

\* The unique index on { userId, month }: an insert for a pair that has a
\* document is rejected (E11000).
DuplicateKey(rows, u, m) == \E b \in rows : b.userId = u /\ b.month = m

\* A faulty increment: $set of spent in place of $inc.
IncSpentSet(rows, u, m, delta, upsert, newId) ==
    LET hit == {b \in rows : b.userId = u /\ b.month = m}
    IN  IF hit # {}
        THEN (rows \ hit) \cup {[b EXCEPT !.spent = delta] : b \in hit}
        ELSE IF upsert
        THEN rows \cup {[id |-> newId, userId |-> u, month |-> m,
                         spent |-> delta]}
        ELSE rows

\* Budget.findOneAndUpdate({ userId, month }, { $inc: { spent: delta } },
\* { upsert }): the upsert inserts what the filter and the update name,
\* and `limit` has no schema default.
IncSpent(rows, u, m, delta, upsert, newId) ==
    LET hit == FindBudget(rows, u, m)
    IN  IF hit # {}
        THEN (rows \ hit) \cup {[The(hit) EXCEPT !.spent = @ + delta]}
        ELSE IF upsert
        THEN rows \cup {[id |-> newId, userId |-> u, month |-> m,
                         spent |-> delta]}
        ELSE rows

\* new Budget({ userId, month, limit }).save(): spent takes its default 0.
NewBudget(id, u, m, limit) ==
    [id |-> id, userId |-> u, month |-> m, limit |-> limit, spent |-> 0]

\* budget.limit = limit; budget.save() on a loaded document: $set of the
\* modified path on the document with that _id.
SetLimit(rows, id, limit) ==
    {IF b.id = id
     THEN [f \in DOMAIN b \cup {"limit"} |->
              IF f = "limit" THEN limit ELSE b[f]]
     ELSE b : b \in rows}

\* save() validates the paths of a loaded document before it writes: the
\* schema's `min: 0` on spent.
ValidSpent(b) == b.spent >= 0

\* Expense.findByIdAndUpdate(id, updateData, { new: true }): every schema
\* path the body names is set, `userId` (the body's owner) included.
ApplyUpdate(e, body) ==
    [e EXCEPT !.amount = OrElse(body.amount, @),
              !.date = OrElse(body.date, @),
              !.userId = OrElse(body.owner, @)]
UpdateById(exps, id, body) ==
    {IF e.id = id THEN ApplyUpdate(e, body) ELSE e : e \in exps}

\* A faulty difference: the new amount itself.
AmountDifferenceNew(oldAmount, body) ==
    IF body.amount = {} THEN 0 ELSE CHOOSE v \in body.amount : TRUE

\* newAmount - oldAmount, with newAmount = updateData.amount || oldAmount.
AmountDifference(oldAmount, body) ==
    OrElse(body.amount, oldAmount) - oldAmount

RECURSIVE SumAmounts(_)
SumAmounts(exps) ==
    IF exps = {} THEN 0
    ELSE LET e == CHOOSE x \in exps : TRUE
         IN  e.amount + SumAmounts(exps \ {e})

\* The user's expenses whose date falls in month m.
ExpensesIn(exps, u, m) ==
    {e \in exps : e.userId = u /\ MonthOf(e.date) = m}

SpentOrZero(rows, u, m) ==
    IF FindBudget(rows, u, m) = {} THEN 0 ELSE The(FindBudget(rows, u, m)).spent

(***************************************************************************)
(* State.                                                                  *)
(***************************************************************************)
VARIABLES
    expenses,   \* the Expense collection
    budgets,    \* the Budget collection
    nextEid,    \* the next fresh Expense _id
    nextBid,    \* the next fresh Budget _id
    started,    \* requests accepted so far
    pc,         \* per request slot: the await the handler stands at
    req,        \* per request slot: the request (user, params, body)
    loc,        \* per request slot: the handler's local variables
    last,       \* history: the request answered last, with its HTTP status
    track,      \* history: per expense, the budget it was added against
    served      \* history: the answers to the List requests, in order

vars == <<expenses, budgets, nextEid, nextBid, started, pc, req, loc, last,
          track, served>>

\* A request and, once answered, its response: the HTTP status, the amount
\* difference an Update computed, and the budget the body carries.
NoReq == [op |-> "none", user |-> "", id |-> 0, amount |-> {}, date |-> {},
          month |-> {}, limit |-> 0, status |-> 0, diff |-> 0, view |-> {},
          alerts |-> <<>>, hasAlerts |-> FALSE, history |-> <<>>,
          owner |-> {}, expense |-> {}, category |-> "", errors |-> {},
          page |-> 0, items |-> <<>>, totalItems |-> 0, totalPages |-> 0,
          year |-> {}, targetYear |-> 0, monthlyData |-> <<>>,
          totalSpent |-> 0, totalBudget |-> JsNum(0),
          categoryBreakdown |-> <<>>, totalTransactions |-> 0,
          currentMonth |-> {}, topCategories |-> <<>>, comparison |-> {},
          period |-> "", months |-> 0, trends |-> <<>>,
          averageSpent |-> <<0, 1>>]
NoLoc == [exp |-> {}, bud |-> {}, diff |-> 0, items |-> <<>>, total |-> 0,
          count |-> 0]

Init ==
    /\ expenses = {}
    /\ budgets = {}
    /\ nextEid = 1
    /\ nextBid = 1
    /\ started = 0
    /\ pc = [p \in Procs |-> "idle"]
    /\ req = [p \in Procs |-> NoReq]
    /\ loc = [p \in Procs |-> NoLoc]
    /\ last = NoReq
    /\ served = <<>>
    /\ track = <<>>

\* No request is in flight.
Quiet == \A p \in Procs : pc[p] = "idle"

\* What a (user, month) pair's Budget row holds in `spent`, if it exists.
KeySpent(rows, u, m) == {b.spent : b \in FindBudget(rows, u, m)}

\* History: an expense stops being `clean` once a request on something else
\* changes, creates or removes the spent of the row it was added against.
Touch(trk, rows, rows2, byId) ==
    [j \in DOMAIN trk |->
        IF j # byId /\ KeySpent(rows, trk[j].user, trk[j].month)
                          # KeySpent(rows2, trk[j].user, trk[j].month)
        THEN [trk[j] EXCEPT !.clean = FALSE]
        ELSE trk[j]]

\* A request arrives at the idle slot p.
Arrive(p) ==
    /\ pc[p] = "idle"
    /\ started < MaxRequests
    /\ started' = started + 1

\* The handler of slot p, serving request r, goes on to the await `next`
\* with locals l.
Await(p, r, l, next) ==
    /\ pc' = [pc EXCEPT ![p] = next]
    /\ req' = [req EXCEPT ![p] = r]
    /\ loc' = [loc EXCEPT ![p] = l]
    /\ last' = last
    /\ served' = served

\* The handler of slot p, serving request r, sends `code` and ends.
Respond(p, r, code) ==
    /\ pc' = [pc EXCEPT ![p] = "idle"]
    /\ req' = [req EXCEPT ![p] = NoReq]
    /\ loc' = [loc EXCEPT ![p] = NoLoc]
    /\ last' = [r EXCEPT !.status = code]
    /\ served' = IF r.op = "list" THEN Append(served, last') ELSE served

\* The first Budget _id not yet handed out is used iff a row was inserted.
BumpBid(rows2) ==
    nextBid' = IF \E b \in rows2 : b.id = nextBid THEN nextBid + 1 ELSE nextBid

(***************************************************************************)
(* POST /expenses                                                          *)
(***************************************************************************)
\* The categories an expense may have.
Categories ==
    {"Food & Dining", "Transportation", "Shopping", "Entertainment",
     "Healthcare", "Education", "Housing", "Utilities", "Insurance", "Travel",
     "Other"}
\* Amounts are whole numbers; the least amount, 0.01, in hundredths.
AmountMinHundredths == 1
AmountMax == 1000000
\* body('amount').isFloat({ min: 0.01 }): no upper bound.
IsFloatMin(a) == 100 * a >= AmountMinHundredths
\* validationResult(req).array(), as the set of the fields it names.
AddErrors(c, a) ==
    {f \in {"category"} : c \notin Categories}
        \cup {f \in {"amount"} : ~IsFloatMin(a)}
\* The validators of expenseSchema that expense.save() runs.
SchemaValid(c, a) ==
    /\ c \in Categories
    /\ 100 * a >= AmountMinHundredths
    /\ a <= AmountMax

\* POST /expenses with body { category: c, amount: a, date: d } up to
\* await expense.save(): 400 with the validators' errors, 500 when save()
\* rejects the document, else the expense is inserted.  The category is
\* checked and not kept: no budget depends on it.
AddRequest(p, u, c, a, d) ==
    LET expense == [id |-> nextEid, userId |-> u, amount |-> a,
                    date |-> OrElse(d, Now)]
        r       == [NoReq EXCEPT !.op = "add", !.user = u, !.category = c,
                                 !.amount = {a}, !.date = d]
    IN  /\ Arrive(p)
        /\ IF AddErrors(c, a) # {}
           THEN /\ Respond(p, [r EXCEPT !.errors = AddErrors(c, a)], 400)
                /\ UNCHANGED <<expenses, nextEid, track>>
           ELSE IF ~SchemaValid(c, a)
           THEN /\ Respond(p, r, 500)
                /\ UNCHANGED <<expenses, nextEid, track>>
           ELSE /\ expenses' = expenses \cup {expense}
                /\ nextEid' = nextEid + 1
                /\ Await(p, r, [NoLoc EXCEPT !.exp = {expense}], "add_inc")
                /\ track' = Append(track,
                       [user |-> u, month |-> MonthOf(expense.date),
                        had |-> FindBudget(budgets, u, MonthOf(expense.date)) # {},
                        base |-> SpentOrZero(budgets, u, MonthOf(expense.date)),
                        clean |-> TRUE])
        /\ UNCHANGED <<budgets, nextBid>>

\* An Add of an amount in Amounts under a category of the set.
AddSave(p) ==
    \E u \in Users, a \in Amounts, d \in Opt(Dates) :
        AddRequest(p, u, "Other", a, d)

\* An Add of any body: the category in the set or not, the amount zero,
\* negative, within the schema's range, at its maximum or beyond it.
BodyCategories == {"Other", "Travel", "Gifts"}
BodyAmounts == {-1, 0, 1, AmountMax, AmountMax + 1}
AddAny(p) ==
    \E u \in Users, c \in BodyCategories, a \in BodyAmounts, d \in Opt(Dates) :
        AddRequest(p, u, c, a, d)

\* A faulty Add: the budget is written as read-modify-write, from the spent
\* read before the expense was saved.
AddIncStale(p) ==
    /\ pc[p] = "add_inc"
    /\ LET expense == CHOOSE e \in loc[p].exp : TRUE
           month   == track[expense.id].month
           hit     == {b \in budgets : b.userId = req[p].user
                                          /\ b.month = month}
           spent   == track[expense.id].base + expense.amount
       IN  /\ budgets' = IF hit = {}
                         THEN budgets \cup {[id |-> nextBid,
                                  userId |-> req[p].user, month |-> month,
                                  spent |-> spent]}
                         ELSE (budgets \ hit)
                                  \cup {[b EXCEPT !.spent = spent] : b \in hit}
           /\ nextBid' = IF hit = {} THEN nextBid + 1 ELSE nextBid
           /\ track' = track
           /\ pc' = [pc EXCEPT ![p] = "idle"]
           /\ req' = [req EXCEPT ![p] = NoReq]
           /\ loc' = [loc EXCEPT ![p] = NoLoc]
           /\ served' = served
           /\ last' = [req[p] EXCEPT !.id = expense.id, !.status = 201]
    /\ UNCHANGED <<expenses, nextEid, started>>

\* await Budget.findOneAndUpdate(..., { $inc: { spent: amount } }, upsert);
\* 201 with the expense.
AddInc(p) ==
    /\ pc[p] = "add_inc"
    /\ LET expense == The(loc[p].exp)
           month   == MonthOf(expense.date)
       IN  /\ budgets' = IncSpent(budgets, req[p].user, month,
                                  The(req[p].amount), TRUE, nextBid)
           /\ BumpBid(budgets')
           /\ track' = Touch(track, budgets, budgets', expense.id)
           /\ Respond(p, [req[p] EXCEPT !.id = expense.id], 201)
    /\ UNCHANGED <<expenses, nextEid, started>>

(***************************************************************************)
(* GET /expenses                                                           *)
(***************************************************************************)
\* The documents matching { userId, date: { $gte: startDate, $lte: endDate } },
\* the date range only when a month filter is given.
ListQuery(exps, u, month) ==
    IF month = {}
    THEN {e \in exps : e.userId = u}
    ELSE UNION {{e \in exps :
                    /\ e.userId = u
                    /\ InDateRange(e.date, StartOfMonth(ym.y, ym.m),
                                   EndOfMonth(ym.y, ym.m))}
                : ym \in {ParseMonth(The(month))}}
\* sort({ date: -1, createdAt: -1 }): a may stand before b.
SortBefore(a, b) ==
    \/ TimeLess(b.date, a.date)
    \/ TimeEqual(a.date, b.date) /\ a.createdAt >= b.createdAt
\* The orders the sort may return: documents equal in date and createdAt
\* come in any order, and the order may differ from one query to the next.
SortedOrders(S) ==
    {s \in [1..Cardinality(S) -> S] :
        /\ \A i, j \in 1..Cardinality(S) : i # j => s[i] # s[j]
        /\ \A i, j \in 1..Cardinality(S) : i < j => SortBefore(s[i], s[j])}
\* .skip(skip).limit(limit)
SkipLimit(s, skip, limit) ==
    SubSeq(s, skip + 1, IF skip + limit < Len(s) THEN skip + limit ELSE Len(s))
\* Math.ceil(total / limit)
CeilDiv(total, limit) == (total + limit - 1) \div limit

MaxLists == 2
MaxPage == 3
MaxPageSize == 2
ListMonths == {"2024-01"}

\* await Expense.find(query).sort(...).skip(skip).limit(limit)
ListFind(p) ==
    \E u \in Users, month \in Opt(ListMonths), page \in 1..MaxPage,
       limit \in 1..MaxPageSize :
        \E order \in SortedOrders(ListQuery(expenses, u, month)) :
            /\ Arrive(p)
            /\ Len(served) < MaxLists
            /\ Await(p, [NoReq EXCEPT !.op = "list", !.user = u,
                                      !.month = month, !.page = page,
                                      !.limit = limit],
                     [NoLoc EXCEPT !.items = SkipLimit(order,
                                                 (page - 1) * limit, limit)],
                     "list_count")
            /\ UNCHANGED <<expenses, budgets, nextEid, nextBid, track>>

\* await Expense.countDocuments(query); 200 with the page and its metadata.
ListCount(p) ==
    /\ pc[p] = "list_count"
    /\ LET total == Cardinality(ListQuery(expenses, req[p].user, req[p].month))
       IN  Respond(p, [req[p] EXCEPT !.items = loc[p].items,
                                     !.totalItems = total,
                                     !.totalPages = CeilDiv(total, req[p].limit)],
                   200)
    /\ UNCHANGED <<expenses, budgets, nextEid, nextBid, started, track>>

(***************************************************************************)
(* GET /analytics/monthly                                                  *)
(***************************************************************************)
\* $match { userId, date: { $gte: startDate, $lte: endDate } }, $group
\* { total: { $sum: '$amount' } }; 0 when nothing matches.
MonthTotal(exps, u, y, m) ==
    SumAmounts({e \in exps :
                   /\ e.userId = u
                   /\ InDateRange(e.date, StartOfMonth(y, m), EndOfMonth(y, m))})
\* The sum of two JS numbers.
JsAdd(a, b) == IF a.nan \/ b.nan THEN NaN ELSE JsNum(a.v + b.v)
\* monthData: `budget` is the row's limit, undefined ({}) on a row that has
\* none, and `remaining` is then Math.max(0, undefined - spent), NaN.
MonthData(rows, u, y, m, spent) ==
    LET month  == YearString(y) \o "-" \o PadStart2(m)
        budget == FindBudget(rows, u, month)
    IN  [month |-> month, year |-> y, spent |-> spent,
         budget |-> IF budget = {} THEN {0}
                    ELSE IF HasLimit(The(budget)) THEN {The(budget).limit}
                    ELSE {},
         remaining |-> IF budget = {} THEN JsNum(0)
                       ELSE IF HasLimit(The(budget))
                       THEN JsNum(Max(0, The(budget).limit - spent))
                       ELSE NaN]
\* monthlyData.reduce((sum, month) => sum + month.spent, 0)
RECURSIVE SumSpent(_)
SumSpent(data) ==
    IF data = <<>> THEN 0
    ELSE SumSpent(SubSeq(data, 1, Len(data) - 1)) + data[Len(data)].spent
\* monthlyData.reduce((sum, month) => sum + month.budget, 0)
RECURSIVE SumBudget(_)
SumBudget(data) ==
    IF data = <<>> THEN JsNum(0)
    ELSE JsAdd(SumBudget(SubSeq(data, 1, Len(data) - 1)),
               IF data[Len(data)].budget = {} THEN NaN
               ELSE JsNum(The(data[Len(data)].budget)))

SeriesYears == {2023, 2024}

\* The request arrives; targetYear = year || new Date().getFullYear(); the
\* first await is the aggregate of January.
MonthlyArrive(p) ==
    \E u \in Users, year \in Opt(SeriesYears) :
        LET targetYear == OrElse(year, Now.y)
        IN  /\ Arrive(p)
            /\ Await(p, [NoReq EXCEPT !.op = "monthly", !.user = u,
                                      !.year = year, !.targetYear = targetYear],
                     [NoLoc EXCEPT !.total = MonthTotal(expenses, u,
                                                        targetYear, 1)],
                     "monthly_budget")
            /\ UNCHANGED <<expenses, budgets, nextEid, nextBid, track>>

\* await Expense.aggregate([...]) of the month after those already pushed.
MonthlyAggregate(p) ==
    /\ pc[p] = "monthly_aggregate"
    /\ Await(p, req[p],
             [loc[p] EXCEPT !.total = MonthTotal(expenses, req[p].user,
                                                 req[p].targetYear,
                                                 Len(loc[p].items) + 1)],
             "monthly_budget")
    /\ UNCHANGED <<expenses, budgets, nextEid, nextBid, started, track>>

\* await Budget.findOne({ userId, month }); monthlyData.push(monthData); after
\* December, 200 with the series and the year's totals.
MonthlyBudget(p) ==
    /\ pc[p] = "monthly_budget"
    /\ LET data == Append(loc[p].items,
                          MonthData(budgets, req[p].user, req[p].targetYear,
                                    Len(loc[p].items) + 1, loc[p].total))
       IN  IF Len(data) < 12
           THEN Await(p, req[p], [loc[p] EXCEPT !.items = data],
                      "monthly_aggregate")
           ELSE Respond(p, [req[p] EXCEPT !.monthlyData = data,
                                          !.totalSpent = SumSpent(data),
                                          !.totalBudget = SumBudget(data)],
                        200)
    /\ UNCHANGED <<expenses, budgets, nextEid, nextBid, started, track>>

(***************************************************************************)
(* GET /analytics/category                                                 *)
(***************************************************************************)
\* matchQuery.date: the month given, else the year given (1 January to
\* 31 December 23:59:59), else the current month.
CategoryRange(month, year) ==
    IF month # {}
    THEN LET ym == ParseMonth(The(month))
         IN  <<StartOfMonth(ym.y, ym.m), EndOfMonth(ym.y, ym.m)>>
    ELSE IF year # {}
    THEN <<StartOfMonth(The(year), 1), EndOfMonth(The(year), 12)>>
    ELSE LET ym == ParseMonth(getCurrentMonth)
         IN  <<StartOfMonth(ym.y, ym.m), EndOfMonth(ym.y, ym.m)>>
\* { $match: matchQuery }
CategoryMatch(exps, u, range) ==
    {e \in exps : e.userId = u /\ InDateRange(e.date, range[1], range[2])}
\* { $group: { _id: '$category', total: { $sum: '$amount' },
\*             count: { $sum: 1 } } }
CategoryGroups(matched) ==
    {[category |-> c,
      total |-> SumAmounts({e \in matched : e.category = c}),
      count |-> Cardinality({e \in matched : e.category = c})]
     : c \in {e.category : e \in matched}}
\* { $sort: { total: -1 } }: groups of equal total come in any order.
SortedByTotal(groups) ==
    {s \in [1..Cardinality(groups) -> groups] :
        /\ \A i, j \in 1..Cardinality(groups) : i # j => s[i] # s[j]
        /\ \A i, j \in 1..Cardinality(groups) :
              i < j => s[i].total >= s[j].total}
\* categoryData.reduce((sum, category) => sum + category.total, 0)
RECURSIVE SumTotal(_)
SumTotal(data) ==
    IF data = <<>> THEN 0
    ELSE SumTotal(SubSeq(data, 1, Len(data) - 1)) + data[Len(data)].total
\* categoryBreakdown.reduce((sum, cat) => sum + cat.count, 0)
RECURSIVE SumCount(_)
SumCount(data) ==
    IF data = <<>> THEN 0
    ELSE SumCount(SubSeq(data, 1, Len(data) - 1)) + data[Len(data)].count
\* categoryData.map(...): the percentage is
\* totalSpent > 0 ? Math.round((category.total / totalSpent) * 100) : 0.
CategoryBreakdown(data, totalSpent) ==
    [i \in 1..Len(data) |->
        [category |-> data[i].category, amount |-> data[i].total,
         count |-> data[i].count,
         percentage |-> IF totalSpent > 0
                        THEN RoundPercent(data[i].total, totalSpent)
                        ELSE 0]]

CategoryMonths == {"2024-01", "2024-02"}
CategoryYears == {2024}

\* await Expense.aggregate([...]); 200 with the breakdown and its totals.
Category(p) ==
    \E u \in Users, month \in Opt(CategoryMonths), year \in Opt(CategoryYears) :
        \E categoryData \in SortedByTotal(CategoryGroups(
                CategoryMatch(expenses, u, CategoryRange(month, year)))) :
            LET totalSpent == SumTotal(categoryData)
                breakdown  == CategoryBreakdown(categoryData, totalSpent)
            IN  /\ Arrive(p)
                /\ Respond(p, [NoReq EXCEPT !.op = "category", !.user = u,
                                            !.month = month, !.year = year,
                                            !.categoryBreakdown = breakdown,
                                            !.totalSpent = totalSpent,
                                            !.totalTransactions =
                                                SumCount(breakdown)],
                           200)
                /\ UNCHANGED <<expenses, budgets, nextEid, nextBid, track>>

(***************************************************************************)
(* GET /analytics/trends                                                   *)
(***************************************************************************)
\* Days are counted from 1 January of CalendarBase, a Sunday.
CalendarBase == 2023
\* The days from the base to the first day of month m of year y.
RECURSIVE DaysBeforeMonth(_, _)
DaysBeforeMonth(y, m) ==
    IF y = CalendarBase /\ m = 1 THEN 0
    ELSE IF m = 1 THEN DaysBeforeMonth(y - 1, 12) + DaysInMonth(y - 1, 12)
    ELSE DaysBeforeMonth(y, m - 1) + DaysInMonth(y, m - 1)
DayIndex(date) == DaysBeforeMonth(date.y, date.m) + (date.d - 1)
\* The calendar date n days after the first day of month m of year y.
RECURSIVE DateFromMonth(_, _, _)
DateFromMonth(y, m, n) ==
    IF n < DaysInMonth(y, m) THEN MkDate(y, m, n + 1)
    ELSE IF m = 12 THEN DateFromMonth(y + 1, 1, n - DaysInMonth(y, m))
    ELSE DateFromMonth(y, m + 1, n - DaysInMonth(y, m))
\* date.setDate(date.getDate() + k): the day moves, the time of day stays.
AddDays(date, k) ==
    LET d == DateFromMonth(CalendarBase, 1, DayIndex(date) + k)
    IN  [y |-> d.y, m |-> d.m, d |-> d.d, ms |-> MsOf(date)]
\* date.getDay(): 0 is Sunday.
getDay(date) == DayIndex(date) % 7
\* The bucket of the week i weeks back: startOfWeek is the Sunday on or
\* before currentDate - 7i days, endOfWeek six days later, both at
\* currentDate's time of day.
WeekRange(currentDate, i) ==
    LET date        == AddDays(currentDate, -(i * 7))
        startOfWeek == AddDays(date, -getDay(date))
    IN  <<startOfWeek, AddDays(startOfWeek, 6)>>
\* The bucket of the month i months back: its first instant to 23:59:59 of
\* its last day.
TrendMonthRange(currentDate, i) ==
    LET date == DateNormalize(currentDate.y, currentDate.m - 1 - i, 1)
    IN  <<StartOfMonth(date.y, date.m), EndOfMonth(date.y, date.m)>>
\* One entry of trends: bucket i (0 is the current one) of the period.
TrendEntry(exps, u, period, currentDate, i) ==
    LET range == IF period = "weekly" THEN WeekRange(currentDate, i)
                 ELSE TrendMonthRange(currentDate, i)
    IN  [period |-> IF period = "weekly" THEN <<"week", i>>
                    ELSE <<"month", MonthOf(range[1])>>,
         startDate |-> range[1], endDate |-> range[2],
         spent |-> SumAmounts({e \in exps :
                      /\ e.userId = u
                      /\ InDateRange(e.date, range[1], range[2])})]
\* The buckets the loop makes: 12 weeks, or `months` months; none for
\* 'yearly', which no branch handles.
TrendBuckets(period, months) ==
    IF period = "weekly" THEN 12
    ELSE IF period = "monthly" THEN months
    ELSE 0
\* 200 with the trends, their total and their mean, total / trends.length (a
\* pair: dividend and divisor), 0 when there are none.
TrendsRespond(p, r, trends) ==
    Respond(p, [r EXCEPT !.trends = trends,
                         !.totalSpent = SumSpent(trends),
                         !.averageSpent = IF Len(trends) > 0
                                          THEN <<SumSpent(trends), Len(trends)>>
                                          ELSE <<0, 1>>],
            200)

\* The time of day a request may arrive at: midnight, or noon.
TrendClocks ==
    {[y |-> d.y, m |-> d.m, d |-> d.d, ms |-> ms] :
        d \in {MkDate(2024, 1, 20), MkDate(2024, 1, 17)},
        ms \in {0, MsPerDay \div 2}}
TrendPeriods == {"weekly", "monthly", "yearly"}
TrendMonths == {1, 12}

\* The request arrives at time currentDate; the first await is the aggregate
\* of the oldest bucket.
TrendsArrive(p) ==
    \E u \in Users, period \in TrendPeriods, months \in TrendMonths,
       currentDate \in TrendClocks :
        LET r == [NoReq EXCEPT !.op = "trends", !.user = u,
                               !.period = period, !.months = months,
                               !.date = {currentDate}]
            n == TrendBuckets(period, months)
        IN  /\ Arrive(p)
            /\ period # "monthly" => months = 12
            /\ IF n = 0
               THEN TrendsRespond(p, r, <<>>)
               ELSE Await(p, r,
                          [NoLoc EXCEPT !.items =
                              <<TrendEntry(expenses, u, period, currentDate,
                                           n - 1)>>],
                          "trends_aggregate")
            /\ UNCHANGED <<expenses, budgets, nextEid, nextBid, track>>

\* The first await has returned and its entry is pushed; the await of the
\* next bucket, or the response after the last.
TrendsAggregate(p) ==
    /\ pc[p] = "trends_aggregate"
    /\ LET n    == TrendBuckets(req[p].period, req[p].months)
           done == Len(loc[p].items)
       IN  IF done = n
           THEN TrendsRespond(p, req[p], loc[p].items)
           ELSE Await(p, req[p],
                      [loc[p] EXCEPT !.items =
                          Append(@, TrendEntry(expenses, req[p].user,
                                               req[p].period,
                                               The(req[p].date),
                                               n - 1 - done))],
                      "trends_aggregate")
    /\ UNCHANGED <<expenses, budgets, nextEid, nextBid, started, track>>

(***************************************************************************)
(* GET /analytics/summary                                                  *)
(***************************************************************************)
\* previousMonth: startOfMonth with setMonth(getMonth() - 1).
PreviousMonthStart(y, m) ==
    LET d == DateNormalize(y, m - 2, 1)
    IN  [y |-> d.y, m |-> d.m, d |-> 1, ms |-> 0]
\* new Date(startOfMonth.getTime() - 1): the last millisecond of the month
\* before month m.
MsBeforeMonth(y, m) ==
    LET s == PreviousMonthStart(y, m)
    IN  [y |-> s.y, m |-> s.m, d |-> DaysInMonth(s.y, s.m), ms |-> MsPerDay - 1]
\* The user's expenses dated from `from` to `to`.
MatchRange(exps, u, from, to) ==
    {e \in exps : e.userId = u /\ InDateRange(e.date, from, to)}
\* $group { _id: '$category', total }, $sort { total: -1 }, $limit 5
TopCategories(matched) ==
    {SubSeq(s, 1, IF Len(s) < 5 THEN Len(s) ELSE 5) :
        s \in SortedByTotal({[category |-> c,
                              total |-> SumAmounts({e \in matched :
                                                       e.category = c})]
                             : c \in {e.category : e \in matched}})}
\* changePercentage = previous > 0 ? ((current - previous) / previous) * 100
\* : 0, as its sign and, for Math.round(changePercentage * 100) / 100, the
\* number of hundredths.
ChangeSign(current, previous) ==
    IF previous > 0 /\ current > previous THEN 1
    ELSE IF previous > 0 /\ current < previous THEN -1
    ELSE 0
ChangeHundredths(current, previous) ==
    IF ChangeSign(current, previous) = 0 THEN 0
    ELSE MathRound(ChangeSign(current, previous),
                   Mul100Double(Mul100Double(
                       DivDouble(Abs(current - previous), previous))))
\* changePercentage > 0 ? 'increase' : changePercentage < 0 ? 'decrease'
\* : 'stable'
Trend(current, previous) ==
    IF ChangeSign(current, previous) > 0 THEN "increase"
    ELSE IF ChangeSign(current, previous) < 0 THEN "decrease"
    ELSE "stable"

\* The request arrives; await Expense.aggregate of the current month.
SummaryCurrent(p) ==
    \E u \in Users :
        LET ym      == ParseMonth(getCurrentMonth)
            matched == MatchRange(expenses, u, StartOfMonth(ym.y, ym.m),
                                  EndOfMonth(ym.y, ym.m))
        IN  /\ Arrive(p)
            /\ Await(p, [NoReq EXCEPT !.op = "summary", !.user = u],
                     [NoLoc EXCEPT !.total = SumAmounts(matched),
                                   !.count = Cardinality(matched)],
                     "summary_budget")
            /\ UNCHANGED <<expenses, budgets, nextEid, nextBid, track>>

\* await Budget.findOne({ userId, month: currentMonth })
SummaryBudget(p) ==
    /\ pc[p] = "summary_budget"
    /\ Await(p, req[p],
             [loc[p] EXCEPT !.bud = FindBudget(budgets, req[p].user,
                                               getCurrentMonth)],
             "summary_top")
    /\ UNCHANGED <<expenses, budgets, nextEid, nextBid, started, track>>

\* await Expense.aggregate of the top categories of the current month.
SummaryTop(p) ==
    /\ pc[p] = "summary_top"
    /\ LET ym == ParseMonth(getCurrentMonth)
       IN  \E top \in TopCategories(MatchRange(expenses, req[p].user,
                                                StartOfMonth(ym.y, ym.m),
                                                EndOfMonth(ym.y, ym.m))) :
               Await(p, req[p], [loc[p] EXCEPT !.items = top],
                     "summary_previous")
    /\ UNCHANGED <<expenses, budgets, nextEid, nextBid, started, track>>

\* await Expense.aggregate of the previous month; 200 with the summary.
SummaryPrevious(p) ==
    /\ pc[p] = "summary_previous"
    /\ LET ym       == ParseMonth(getCurrentMonth)
           previous == SumAmounts(MatchRange(expenses, req[p].user,
                                             PreviousMonthStart(ym.y, ym.m),
                                             MsBeforeMonth(ym.y, ym.m)))
           current  == loc[p].total
           budget   == loc[p].bud
       IN  Respond(p,
               [req[p] EXCEPT
                   !.currentMonth =
                       {[month |-> getCurrentMonth, spent |-> current,
                         budget |-> IF budget = {} THEN {0}
                                    ELSE IF HasLimit(The(budget))
                                    THEN {The(budget).limit} ELSE {},
                         remaining |-> IF budget = {} THEN JsNum(0)
                                       ELSE IF HasLimit(The(budget))
                                       THEN JsNum(Max(0, The(budget).limit
                                                            - current))
                                       ELSE NaN,
                         transactions |-> loc[p].count]},
                   !.topCategories = loc[p].items,
                   !.comparison =
                       {[previousMonth |-> previous,
                         changeAmount |-> current - previous,
                         changeHundredths |->
                             ChangeHundredths(current, previous),
                         trend |-> Trend(current, previous)]}],
               200)
    /\ UNCHANGED <<expenses, budgets, nextEid, nextBid, started, track>>

(***************************************************************************)
(* GET /expenses/:id                                                       *)
(***************************************************************************)
\* await Expense.findOne({ _id: id, userId }): 500 when the id does not cast,
\* 404 when nothing is found, else 200 with the expense.
ExpGet(p) ==
    \E u \in Users, id \in 0..nextEid :
        LET expense == FindExpense(expenses, id, u)
            r       == [NoReq EXCEPT !.op = "expense", !.user = u, !.id = id]
        IN  /\ Arrive(p)
            /\ IF ~ValidObjectId(id)
               THEN Respond(p, r, 500)
               ELSE IF expense = {}
               THEN Respond(p, r, 404)
               ELSE Respond(p, [r EXCEPT !.expense = expense], 200)
            /\ UNCHANGED <<expenses, budgets, nextEid, nextBid, track>>

\* A faulty failure path: the expense just saved is removed again.
AddIncFailRollback(p) ==
    /\ pc[p] = "add_inc"
    /\ expenses' = expenses \ loc[p].exp
    /\ pc' = [pc EXCEPT ![p] = "idle"]
    /\ req' = [req EXCEPT ![p] = NoReq]
    /\ loc' = [loc EXCEPT ![p] = NoLoc]
    /\ served' = served
    /\ last' = [req[p] EXCEPT !.id = (CHOOSE e \in loc[p].exp : TRUE).id,
                              !.status = 500]
    /\ UNCHANGED <<budgets, nextEid, nextBid, started, track>>

\* await Budget.findOneAndUpdate(...) rejects (the store is unreachable or
\* answers with an error): the catch block answers 500.  The expense saved
\* before stays; nothing is written.
AddIncFail(p) ==
    /\ pc[p] = "add_inc"
    /\ Respond(p, [req[p] EXCEPT !.id = The(loc[p].exp).id], 500)
    /\ UNCHANGED <<expenses, budgets, nextEid, nextBid, started, track>>

(***************************************************************************)
(* PUT /expenses/:id                                                       *)
(***************************************************************************)
\* req.body of PUT /expenses/:id: the validated optional fields, or a body
\* naming only the schema path `userId`, which no validator looks at.
UpdateBodies ==
    [amount : Opt(Amounts), date : Opt(Dates), owner : {{}}]
        \cup [amount : {{}}, date : {{}}, owner : {{o} : o \in Users}]

\* await Expense.findOne({ _id: id, userId }); 404, or the amount difference.
UpdFind(p) ==
    \E u \in Users, id \in 0..nextEid, body \in UpdateBodies :
        LET a       == body.amount
            d       == body.date
            o       == body.owner
            expense == FindExpense(expenses, id, u)
            r       == [NoReq EXCEPT !.op = "update", !.user = u, !.id = id,
                                     !.amount = a, !.date = d, !.owner = o]
        IN  /\ Arrive(p)
            /\ IF ~ValidObjectId(id)
               THEN Respond(p, r, 500)
               ELSE IF expense = {}
               THEN Respond(p, r, 404)
               ELSE Await(p, r,
                          [NoLoc EXCEPT !.exp = expense,
                               !.diff = AmountDifference(The(expense).amount, r)],
                          "upd_write")
            /\ UNCHANGED <<expenses, budgets, nextEid, nextBid, track>>

\* await Expense.findByIdAndUpdate(id, updateData, { new: true }).  With no
\* amount difference the handler answers; reading .date of a null result
\* throws, which the catch block answers with 500.
UpdWrite(p) ==
    /\ pc[p] = "upd_write"
    /\ LET id             == req[p].id
           updatedExpense == ExpenseById(UpdateById(expenses, id, req[p]), id)
       IN  /\ expenses' = UpdateById(expenses, id, req[p])
           /\ track' = [j \in DOMAIN track |->
                  IF j = id /\ \E e \in updatedExpense :
                                   \/ MonthOf(e.date) # track[j].month
                                   \/ e.userId # track[j].user
                  THEN [track[j] EXCEPT !.clean = FALSE]
                  ELSE track[j]]
           /\ IF loc[p].diff = 0 THEN Respond(p, req[p], 200)
              ELSE IF updatedExpense = {}
              THEN Respond(p, [req[p] EXCEPT !.diff = loc[p].diff], 500)
              ELSE Await(p, req[p], [loc[p] EXCEPT !.exp = updatedExpense],
                         "upd_inc")
    /\ UNCHANGED <<budgets, nextEid, nextBid, started>>

\* A faulty Update: the difference goes to the month the expense was added
\* in.
UpdIncFirstMonth(p) ==
    /\ pc[p] = "upd_inc"
    /\ budgets' = IncSpent(budgets, req[p].user, track[req[p].id].month,
                           loc[p].diff, TRUE, nextBid)
    /\ nextBid' = IF \E b \in budgets' : b.id = nextBid THEN nextBid + 1
                  ELSE nextBid
    /\ track' = track
    /\ pc' = [pc EXCEPT ![p] = "idle"]
    /\ req' = [req EXCEPT ![p] = NoReq]
    /\ loc' = [loc EXCEPT ![p] = NoLoc]
    /\ served' = served
    /\ last' = [req[p] EXCEPT !.diff = loc[p].diff, !.status = 200]
    /\ UNCHANGED <<expenses, nextEid, started>>

\* await Budget.findOneAndUpdate(..., { $inc: { spent: diff } }, upsert) on
\* the month of the updated expense's date; 200.
UpdInc(p) ==
    /\ pc[p] = "upd_inc"
    /\ LET month == MonthOf(The(loc[p].exp).date)
       IN  /\ budgets' = IncSpent(budgets, req[p].user, month, loc[p].diff,
                                  TRUE, nextBid)
           /\ BumpBid(budgets')
           /\ track' = Touch(track, budgets, budgets', req[p].id)
    /\ Respond(p, [req[p] EXCEPT !.diff = loc[p].diff], 200)
    /\ UNCHANGED <<expenses, nextEid, started>>

\* await Budget.findOneAndUpdate(...) rejects: the catch block answers 500;
\* the expense stays as updated.
UpdIncFail(p) ==
    /\ pc[p] = "upd_inc"
    /\ Respond(p, [req[p] EXCEPT !.diff = loc[p].diff], 500)
    /\ UNCHANGED <<expenses, budgets, nextEid, nextBid, started, track>>

(***************************************************************************)
(* DELETE /expenses/:id                                                    *)
(***************************************************************************)
\* await Expense.findOne({ _id: id, userId }); 404 when there is none.
DelFind(p) ==
    \E u \in Users, id \in 0..nextEid :
        LET expense == FindExpense(expenses, id, u)
            r       == [NoReq EXCEPT !.op = "delete", !.user = u, !.id = id]
        IN  /\ Arrive(p)
            /\ IF ~ValidObjectId(id)
               THEN Respond(p, r, 500)
               ELSE IF expense = {}
               THEN Respond(p, r, 404)
               ELSE Await(p, r, [NoLoc EXCEPT !.exp = expense], "del_remove")
            /\ UNCHANGED <<expenses, budgets, nextEid, nextBid, track>>

\* await Expense.findByIdAndDelete(id)
DelRemove(p) ==
    /\ pc[p] = "del_remove"
    /\ expenses' = expenses \ ExpenseById(expenses, req[p].id)
    /\ Await(p, req[p], loc[p], "del_inc")
    /\ UNCHANGED <<budgets, nextEid, nextBid, started, track>>

\* A faulty Delete: the budget is left as it is.
DelIncSkipped(p) ==
    /\ pc[p] = "del_inc"
    /\ pc' = [pc EXCEPT ![p] = "idle"]
    /\ req' = [req EXCEPT ![p] = NoReq]
    /\ loc' = [loc EXCEPT ![p] = NoLoc]
    /\ served' = served
    /\ last' = [req[p] EXCEPT !.status = 200]
    /\ UNCHANGED <<expenses, budgets, nextEid, nextBid, started, track>>

\* await Budget.findOneAndUpdate(..., { $inc: { spent: -expense.amount } }):
\* no upsert, on the month of the expense as it was read; 200.
DelInc(p) ==
    /\ pc[p] = "del_inc"
    /\ LET expense == The(loc[p].exp)
       IN  /\ budgets' = IncSpent(budgets, req[p].user, MonthOf(expense.date),
                                  -expense.amount, FALSE, nextBid)
           /\ BumpBid(budgets')
           /\ track' = Touch(track, budgets, budgets', req[p].id)
    /\ Respond(p, req[p], 200)
    /\ UNCHANGED <<expenses, nextEid, started>>

\* await Budget.findOneAndUpdate(...) rejects: the catch block answers 500;
\* the expense stays deleted.
DelIncFail(p) ==
    /\ pc[p] = "del_inc"
    /\ Respond(p, req[p], 500)
    /\ UNCHANGED <<expenses, budgets, nextEid, nextBid, started, track>>

(***************************************************************************)
(* POST /budget                                                            *)
(***************************************************************************)
\* await Budget.findOne({ userId, month: budgetMonth })
SetFind(p) ==
    \E u \in Users, m \in Opt(Months), limit \in Limits :
        /\ Arrive(p)
        /\ Await(p, [NoReq EXCEPT !.op = "set", !.user = u, !.month = m,
                                  !.limit = limit],
                 [NoLoc EXCEPT !.bud =
                      FindBudget(budgets, u, OrElse(m, getCurrentMonth))],
                 "set_save")
        /\ UNCHANGED <<expenses, budgets, nextEid, nextBid, track>>

\* The month of a request as the characters the client sent.
RECURSIVE Text(_)
Text(s) == IF s = <<>> THEN "" ELSE Head(s) \o Text(Tail(s))

DigitChars == {Digit(n) : n \in 0..9}

\* /^\d{4}-\d{2}$/ of the route validators and of the schema's match.
MonthPattern(s) ==
    /\ Len(s) = 7
    /\ \A i \in {1, 2, 3, 4, 6, 7} : s[i] \in DigitChars
    /\ s[5] = "-"

\* Month texts a client sends: the current month, a month part above 12, a
\* month part of 00, a one-digit month part, the empty text.
BodyMonths ==
    { <<"2", "0", "2", "4", "-", "0", "1">>,
      <<"2", "0", "2", "4", "-", "1", "3">>,
      <<"2", "0", "2", "4", "-", "0", "0">>,
      <<"2", "0", "2", "4", "-", "1">>,
      <<>> }

\* body('month').optional().matches(...): an absent month passes.
MonthErrors(month) == \E s \in month : ~MonthPattern(s)

\* POST /budget with any month text: 400 from the validators, or findOne.
SetAny(p) ==
    \E u \in Users, month \in Opt(BodyMonths), limit \in Limits :
        LET m == {Text(s) : s \in month}
            r == [NoReq EXCEPT !.op = "set", !.user = u, !.month = m,
                               !.limit = limit]
        IN  /\ Arrive(p)
            /\ IF MonthErrors(month)
               THEN Respond(p, r, 400)
               ELSE Await(p, r,
                          [NoLoc EXCEPT !.bud =
                             FindBudget(budgets, u, OrElse(m, getCurrentMonth))],
                          "set_save")
            /\ UNCHANGED <<expenses, budgets, nextEid, nextBid, track>>

\* A faulty Set: save() writes the whole loaded document back, its spent as
\* it was read.
SetSaveWholeDocument(p) ==
    /\ pc[p] = "set_save"
    /\ LET budgetMonth == IF req[p].month = {} THEN getCurrentMonth
                          ELSE CHOOSE m \in req[p].month : TRUE
           limit       == req[p].limit
           hit         == {b \in budgets : b.userId = req[p].user
                                              /\ b.month = budgetMonth}
           saved       == {[f \in DOMAIN b \cup {"limit"} |->
                               IF f = "limit" THEN limit ELSE b[f]]
                           : b \in loc[p].bud}
       IN  /\ budgets' = IF loc[p].bud = {}
                         THEN budgets \cup {[id |-> nextBid,
                                  userId |-> req[p].user, month |-> budgetMonth,
                                  limit |-> limit, spent |-> 0]}
                         ELSE (budgets \ hit) \cup saved
           /\ nextBid' = IF loc[p].bud = {} THEN nextBid + 1 ELSE nextBid
    /\ pc' = [pc EXCEPT ![p] = "idle"]
    /\ served' = served
    /\ last' = [req[p] EXCEPT !.status = 200]
    /\ req' = [req EXCEPT ![p] = NoReq]
    /\ loc' = [loc EXCEPT ![p] = NoLoc]
    /\ UNCHANGED <<expenses, nextEid, started, track>>

\* await budget.save(): of the loaded document with its limit assigned
\* (validation, then an update by _id of the changed path or, when the
\* limit is the one the document has, a look-up by _id that writes nothing;
\* either throws when the document is gone), or of a new document (an insert, which the unique
\* index may reject); a throw is answered with 500.
SetSave(p) ==
    /\ pc[p] = "set_save"
    /\ LET budgetMonth == OrElse(req[p].month, getCurrentMonth)
           limit       == req[p].limit
       IN  IF loc[p].bud # {}
           THEN LET budget == The(loc[p].bud)
                    saved  == The(SetLimit({budget}, budget.id, limit))
                    ok     == [req[p] EXCEPT !.view = {BudgetJson(saved)}]
                IN  IF ~ValidSpent(budget)
                    THEN /\ budgets' = budgets
                         /\ Respond(p, req[p], 500)
                    ELSE IF BudgetById(budgets, budget.id) = {}
                    THEN /\ budgets' = budgets
                         /\ Respond(p, req[p], 500)
                    ELSE IF HasLimit(budget) /\ budget.limit = limit
                    THEN /\ budgets' = budgets
                         /\ Respond(p, ok, 200)
                    ELSE /\ budgets' = SetLimit(budgets, budget.id, limit)
                         /\ Respond(p, ok, 200)
           ELSE LET budget == NewBudget(nextBid, req[p].user, budgetMonth,
                                        limit)
                IN  IF DuplicateKey(budgets, req[p].user, budgetMonth)
                    THEN /\ budgets' = budgets
                         /\ Respond(p, req[p], 500)
                    ELSE /\ budgets' = budgets \cup {budget}
                         /\ Respond(p, [req[p] EXCEPT
                                           !.view = {BudgetJson(budget)}], 200)
    /\ BumpBid(budgets')
    /\ track' = Touch(track, budgets, budgets', 0)
    /\ UNCHANGED <<expenses, nextEid, started>>

(***************************************************************************)
(* GET /budget                                                             *)
(***************************************************************************)
\* await Budget.findOne({ userId, month: budgetMonth }); 200 when found.
GetFind(p) ==
    \E u \in Users, m \in Opt(Months) :
        LET budget == FindBudget(budgets, u, OrElse(m, getCurrentMonth))
            r      == [NoReq EXCEPT !.op = "get", !.user = u, !.month = m]
        IN  /\ Arrive(p)
            /\ IF budget # {}
               THEN Respond(p, [r EXCEPT !.view = {BudgetJson(The(budget))}],
                            200)
               ELSE Await(p, r, NoLoc, "get_save")
            /\ UNCHANGED <<expenses, budgets, nextEid, nextBid, track>>

\* GET /budget with any month text: 400 from the validators, 200 when found.
GetAny(p) ==
    \E u \in Users, month \in Opt(BodyMonths) :
        LET m      == {Text(s) : s \in month}
            budget == FindBudget(budgets, u, OrElse(m, getCurrentMonth))
            r      == [NoReq EXCEPT !.op = "get", !.user = u, !.month = m]
        IN  /\ Arrive(p)
            /\ IF MonthErrors(month)
               THEN Respond(p, r, 400)
               ELSE IF budget # {}
               THEN Respond(p, [r EXCEPT !.view = {BudgetJson(The(budget))}],
                            200)
               ELSE Await(p, r, NoLoc, "get_save")
            /\ UNCHANGED <<expenses, budgets, nextEid, nextBid, track>>

\* A faulty Get: the default budget is returned and not saved.
GetSaveNoInsert(p) ==
    /\ pc[p] = "get_save"
    /\ pc' = [pc EXCEPT ![p] = "idle"]
    /\ served' = served
    /\ last' = [req[p] EXCEPT !.status = 200,
                              !.view = {BudgetJson([id |-> nextBid,
                                  userId |-> req[p].user,
                                  month |-> IF req[p].month = {}
                                            THEN getCurrentMonth
                                            ELSE CHOOSE m \in req[p].month : TRUE,
                                  limit |-> 0, spent |-> 0])}]
    /\ req' = [req EXCEPT ![p] = NoReq]
    /\ loc' = [loc EXCEPT ![p] = NoLoc]
    /\ UNCHANGED <<expenses, budgets, nextEid, nextBid, started, track>>

\* await new Budget({ userId, month, limit: 0, spent: 0 }).save(); 200, or
\* 500 when the unique index rejects the insert.
GetSave(p) ==
    /\ pc[p] = "get_save"
    /\ LET budgetMonth == OrElse(req[p].month, getCurrentMonth)
           budget      == NewBudget(nextBid, req[p].user, budgetMonth, 0)
       IN  IF DuplicateKey(budgets, req[p].user, budgetMonth)
           THEN /\ budgets' = budgets
                /\ Respond(p, req[p], 500)
           ELSE /\ budgets' = budgets \cup {budget}
                /\ Respond(p, [req[p] EXCEPT !.view = {BudgetJson(budget)}],
                           200)
    /\ BumpBid(budgets')
    /\ track' = Touch(track, budgets, budgets', 0)
    /\ UNCHANGED <<expenses, nextEid, started>>

(***************************************************************************)
(* DELETE /budget/:month                                                   *)
(***************************************************************************)
\* await Budget.findOne({ userId, month }); 404 when there is none.
BudgetDelFind(p) ==
    \E u \in Users, m \in Months :
        LET budget == FindBudget(budgets, u, m)
            r      == [NoReq EXCEPT !.op = "budget_delete", !.user = u,
                                    !.month = {m}]
        IN  /\ Arrive(p)
            /\ IF budget = {}
               THEN Respond(p, r, 404)
               ELSE Await(p, r, [NoLoc EXCEPT !.bud = budget], "bdel_remove")
            /\ UNCHANGED <<expenses, budgets, nextEid, nextBid, track>>

\* await Budget.findByIdAndDelete(budget._id); 200.
BudgetDelRemove(p) ==
    /\ pc[p] = "bdel_remove"
    /\ budgets' = budgets \ BudgetById(budgets, The(loc[p].bud).id)
    /\ track' = Touch(track, budgets, budgets', 0)
    /\ Respond(p, req[p], 200)
    /\ UNCHANGED <<expenses, nextEid, nextBid, started>>

(***************************************************************************)
(* GET /budget/history                                                     *)
(***************************************************************************)
\* The last 12 month keys, oldest first: for i = 11 down to 0,
\* new Date(currentYear, currentMonthNum - 1 - i, 1) formatted.
HistoryMonths(currentMonth) ==
    LET months(cur) ==
            [k \in 1..12 |->
                MonthOf(DateNormalize(cur.y, cur.m - 1 - (12 - k), 1))]
    IN  The({months(cur) : cur \in {ParseMonth(currentMonth)}})

\* One entry of budgetHistory: the stored budget's fields, or the defaults.
\* `limit` is a set: empty where the stored budget has none.
HistoryEntry(rows, u, month) ==
    LET budget == FindBudget(rows, u, month)
    IN  IF budget # {}
        THEN [month |-> The(budget).month,
              id |-> {The(budget).id},
              limit |-> {b.limit : b \in {x \in budget : HasLimit(x)}},
              spent |-> The(budget).spent,
              remaining |-> remaining(The(budget)),
              spendingPercentage |-> spendingPercentage(The(budget)),
              status |-> status(The(budget))]
        ELSE [month |-> month, id |-> {}, limit |-> {0}, spent |-> 0,
              remaining |-> JsNum(0), spendingPercentage |-> JsNum(0),
              status |-> "safe"]

\* The server clocks a history request may be served at.
Clocks == {MkDate(2024, m, 1) : m \in 1..12}

\* await Budget.find({ userId, month: { $in: months } }); 200 with the twelve
\* entries.  The request record carries the clock it was served at.
History(p) ==
    \E u \in Users, now \in Clocks :
        LET months == HistoryMonths(MonthOf(now))
            r      == [NoReq EXCEPT !.op = "history", !.user = u,
                                    !.date = {now}]
        IN  /\ Arrive(p)
            /\ Respond(p, [r EXCEPT !.history =
                              [k \in 1..12 |->
                                  HistoryEntry(budgets, u, months[k])]], 200)
            /\ UNCHANGED <<expenses, budgets, nextEid, nextBid, track>>

(***************************************************************************)
(* GET /budget/alerts                                                      *)
(***************************************************************************)
\* Math.abs(x)
MathAbs(n) == IF n.nan THEN n ELSE JsNum(IF n.v < 0 THEN -n.v ELSE n.v)

\* The amount the exceeded alert's message reports:
\* Math.abs(budget.remaining).toFixed(2), the number the text spells.
ExceededBy(alerts, budget) ==
    [i \in DOMAIN alerts |->
        [f \in DOMAIN alerts[i] \cup {"exceededBy"} |->
            IF f = "exceededBy" THEN MathAbs(remaining(budget))
            ELSE alerts[i][f]]]

\* A faulty alert list: every tier the percentage reaches is pushed.
AlertsOfEveryTier(budget) ==
    LET pct == spendingPercentage(budget)
        at(k, type, tier) ==
            IF ~pct.nan /\ pct.v >= k
            THEN <<[type |-> type, tier |-> tier, percentage |-> pct]>>
            ELSE <<>>
    IN  ExceededBy(at(100, "danger", "exceeded"), budget)
            \o at(90, "danger", "almost exceeded")
            \o at(80, "warning", "slow down") \o at(70, "info", "at")

\* The if / else-if chain over the percentage: the alerts array.
AlertsOf(budget) ==
    LET spendingPercentage_ == spendingPercentage(budget)
        alert(type, tier) == <<[type |-> type, tier |-> tier,
                                percentage |-> spendingPercentage_]>>
    IN  IF JsGeq(spendingPercentage_, 100)
        THEN ExceededBy(alert("danger", "exceeded"), budget)
        ELSE IF JsGeq(spendingPercentage_, 90)
        THEN alert("danger", "almost exceeded")
        ELSE IF JsGeq(spendingPercentage_, 80) THEN alert("warning", "slow down")
        ELSE IF JsGeq(spendingPercentage_, 70) THEN alert("info", "at")
        ELSE <<>>

\* The `budget` object of the alerts response.
AlertBudget(b) ==
    [f \in (DOMAIN b \cap {"limit", "spent"})
               \cup {"remaining", "spendingPercentage", "status"} |->
        BudgetJson(b)[f]]

\* await Budget.findOne({ userId, month: currentMonth }); 200 with no alerts
\* when there is no budget or its limit is 0, else with the alerts.
Alerts(p) ==
    \E u \in Users :
        LET budget == FindBudget(budgets, u, getCurrentMonth)
            r      == [NoReq EXCEPT !.op = "alerts", !.user = u]
        IN  /\ Arrive(p)
            /\ IF budget = {} \/ (HasLimit(The(budget)) /\ The(budget).limit = 0)
               THEN Respond(p, r, 200)
               ELSE Respond(p, [r EXCEPT
                                  !.alerts = AlertsOf(The(budget)),
                                  !.hasAlerts = Len(AlertsOf(The(budget))) > 0,
                                  !.view = {AlertBudget(The(budget))}], 200)
            /\ UNCHANGED <<expenses, budgets, nextEid, nextBid, track>>

(***************************************************************************)
(* Specifications.                                                         *)
(***************************************************************************)
\* Requests are handled concurrently; their awaits interleave.
Next ==
    \E p \in Procs :
        \/ AddSave(p) \/ AddInc(p)
        \/ UpdFind(p) \/ UpdWrite(p) \/ UpdInc(p)
        \/ DelFind(p) \/ DelRemove(p) \/ DelInc(p)
        \/ SetFind(p) \/ SetSave(p)
        \/ GetFind(p) \/ GetSave(p)
        \/ BudgetDelFind(p) \/ BudgetDelRemove(p)

Spec == Init /\ [][Next]_vars

\* Every other slot is idle.
Alone(p) == \A q \in Procs \ {p} : pc[q] = "idle"

\* Requests run one after the other: a request is accepted, and served,
\* while every other slot is idle.
NextSeq ==
    \E p \in Procs :
        \/ Alone(p) /\ AddSave(p)
        \/ Alone(p) /\ AddInc(p)
        \/ Alone(p) /\ UpdFind(p)
        \/ Alone(p) /\ UpdWrite(p)
        \/ Alone(p) /\ UpdInc(p)
        \/ Alone(p) /\ DelFind(p)
        \/ Alone(p) /\ DelRemove(p)
        \/ Alone(p) /\ DelInc(p)
        \/ Alone(p) /\ SetFind(p)
        \/ Alone(p) /\ SetSave(p)
        \/ Alone(p) /\ GetFind(p)
        \/ Alone(p) /\ GetSave(p)
        \/ Alone(p) /\ BudgetDelFind(p)
        \/ Alone(p) /\ BudgetDelRemove(p)

SpecSeq == Init /\ [][NextSeq]_vars

\* Only expense Adds arrive, concurrently.
NextAdds == \E p \in Procs : AddSave(p) \/ AddInc(p)

SpecAdds == Init /\ [][NextAdds]_vars

\* The derived fields on their own: one user's current-month budget holds
\* any limit and spent of 0..MaxPctLimit and 0..MaxPctSpent, or a limit of
\* 100 and a spent of 95 (a Set of the limit, then one Add of the spent), or
\* no limit at all (the row an Add's upsert created), and budgets are read.
MaxPctLimit == 40
MaxPctSpent == 24

InitPct ==
    \E limit \in Opt(0..MaxPctLimit \cup {100}),
       spent \in 0..MaxPctSpent \cup {95} :
        /\ limit = {} => spent > 0
        /\ budgets = IF limit = {}
                     THEN IncSpent({}, "u1", getCurrentMonth, spent, TRUE, 1)
                     ELSE {[NewBudget(1, "u1", getCurrentMonth, The(limit))
                               EXCEPT !.spent = spent]}
        /\ expenses = IF spent = 0 THEN {}
                      ELSE {[id |-> 1, userId |-> "u1", amount |-> spent,
                             date |-> Now]}
        /\ nextEid = IF spent = 0 THEN 1 ELSE 2
        /\ nextBid = 2
        /\ started = (IF spent = 0 THEN 0 ELSE 1) + (IF limit = {} THEN 0 ELSE 1)
        /\ pc = [p \in Procs |-> "idle"]
        /\ req = [p \in Procs |-> NoReq]
        /\ loc = [p \in Procs |-> NoLoc]
        /\ last = NoReq
        /\ served = <<>>
        /\ track = IF spent = 0 THEN <<>>
                   ELSE <<[user |-> "u1", month |-> getCurrentMonth,
                           had |-> limit # {}, base |-> 0, clean |-> TRUE]>>

NextPct == \E p \in Procs : GetFind(p) \/ GetSave(p)

SpecPct == InitPct /\ [][NextPct]_vars

\* The alerts on their own: one user's current month has no budget, or a
\* budget created by one Add (no limit), or one with a limit set and then
\* spent by one Add; alerts are read.
InitAlerts ==
    \E limit \in Opt(0..MaxPctLimit), spent \in 0..MaxPctSpent :
        /\ limit = {} => spent > 0
        /\ budgets = IF limit = {}
                     THEN IncSpent({}, "u1", getCurrentMonth, spent, TRUE, 1)
                     ELSE {[NewBudget(1, "u1", getCurrentMonth, The(limit))
                               EXCEPT !.spent = spent]}
        /\ expenses = IF spent = 0 THEN {}
                      ELSE {[id |-> 1, userId |-> "u1", amount |-> spent,
                             date |-> Now]}
        /\ nextEid = IF spent = 0 THEN 1 ELSE 2
        /\ nextBid = 2
        /\ started = (IF spent = 0 THEN 0 ELSE 1) + (IF limit = {} THEN 0 ELSE 1)
        /\ pc = [p \in Procs |-> "idle"]
        /\ req = [p \in Procs |-> NoReq]
        /\ loc = [p \in Procs |-> NoLoc]
        /\ last = NoReq
        /\ served = <<>>
        /\ track = IF spent = 0 THEN <<>>
                   ELSE <<[user |-> "u1", month |-> getCurrentMonth,
                           had |-> limit # {}, base |-> 0, clean |-> TRUE]>>

\* The history on its own: up to MaxRequests - 1 budgets exist, set for
\* months of the last two years or created by an Add, and history is read.
HistoryRows ==
    {NewBudget(1, "u1", "2023-02", 1), NewBudget(2, "u1", "2023-12", 0),
     NewBudget(3, "u1", "2024-01", 1), NewBudget(4, "u2", "2024-01", 1),
     [id |-> 5, userId |-> "u1", month |-> "2024-11", spent |-> 1]}

InitHistory ==
    \E rows \in SUBSET HistoryRows :
        /\ Cardinality(rows) < MaxRequests
        /\ budgets = rows
        /\ expenses = {[id |-> 1, userId |-> b.userId, amount |-> b.spent,
                        date |-> MkDate(2024, 11, 5)]
                       : b \in {x \in rows : ~HasLimit(x)}}
        /\ nextEid = 1 + Cardinality(expenses)
        /\ nextBid = 6
        /\ started = Cardinality(rows)
        /\ pc = [p \in Procs |-> "idle"]
        /\ req = [p \in Procs |-> NoReq]
        /\ loc = [p \in Procs |-> NoLoc]
        /\ last = NoReq
        /\ served = <<>>
        /\ track = [j \in 1..Cardinality(expenses) |->
                       [user |-> "u1", month |-> "2024-11", had |-> FALSE,
                        base |-> 0, clean |-> TRUE]]

NextHistory == \E p \in Procs : History(p)

SpecHistory == InitHistory /\ [][NextHistory]_vars

NextAlerts == \E p \in Procs : Alerts(p)

SpecAlerts == InitAlerts /\ [][NextAlerts]_vars

\* The expense routes that take an id, one request after the other.
NextExpenses ==
    \E p \in Procs :
        \/ Alone(p) /\ AddSave(p)
        \/ Alone(p) /\ AddInc(p)
        \/ Alone(p) /\ ExpGet(p)
        \/ Alone(p) /\ UpdFind(p)
        \/ Alone(p) /\ UpdWrite(p)
        \/ Alone(p) /\ UpdInc(p)
        \/ Alone(p) /\ DelFind(p)
        \/ Alone(p) /\ DelRemove(p)
        \/ Alone(p) /\ DelInc(p)

SpecExpenses == Init /\ [][NextExpenses]_vars

\* The listing on its own: four expenses were added, the first two by one
\* user under one date within one millisecond, and any of them deleted
\* again; the ledger is then listed, one request after the other.
ListLedger ==
    {[id |-> 1, userId |-> "u1", amount |-> 1, date |-> MkDate(2024, 1, 15),
      createdAt |-> 1],
     [id |-> 2, userId |-> "u1", amount |-> 2, date |-> MkDate(2024, 1, 15),
      createdAt |-> 1],
     [id |-> 3, userId |-> "u1", amount |-> 1, date |-> MkDate(2024, 2, 10),
      createdAt |-> 2],
     [id |-> 4, userId |-> "u2", amount |-> 1, date |-> MkDate(2024, 1, 15),
      createdAt |-> 3]}

InitList ==
    \E kept \in SUBSET ListLedger :
        /\ expenses = kept
        /\ budgets =
              {[id |-> 1, userId |-> "u1", month |-> "2024-01",
                spent |-> SumAmounts(ExpensesIn(kept, "u1", "2024-01"))],
               [id |-> 2, userId |-> "u1", month |-> "2024-02",
                spent |-> SumAmounts(ExpensesIn(kept, "u1", "2024-02"))],
               [id |-> 3, userId |-> "u2", month |-> "2024-01",
                spent |-> SumAmounts(ExpensesIn(kept, "u2", "2024-01"))]}
        /\ nextEid = 5
        /\ nextBid = 4
        /\ started = 0
        /\ pc = [p \in Procs |-> "idle"]
        /\ req = [p \in Procs |-> NoReq]
        /\ loc = [p \in Procs |-> NoLoc]
        /\ last = NoReq
        /\ served = <<>>
        /\ track = [j \in 1..4 |->
                      LET e == CHOOSE x \in ListLedger : x.id = j
                      IN  [user |-> e.userId, month |-> MonthOf(e.date),
                           had |-> j = 2, base |-> IF j = 2 THEN 1 ELSE 0,
                           clean |-> TRUE]]

NextList ==
    \E p \in Procs :
        \/ Alone(p) /\ ListFind(p)
        \/ Alone(p) /\ ListCount(p)

SpecList == InitList /\ [][NextList]_vars

\* The monthly series on its own: user u1 set a limit for 2024-01 and five
\* expenses were added, one in the last second of January, one at
\* 23:59:59.000 of the last day of February, one in the year before; any of
\* them were deleted again; the series is then read.
SeriesLedger ==
    {[id |-> 1, userId |-> "u1", amount |-> 1, date |-> MkDate(2024, 1, 15)],
     [id |-> 2, userId |-> "u1", amount |-> 2,
      date |-> [y |-> 2024, m |-> 1, d |-> 31, ms |-> MsPerDay - 500]],
     [id |-> 3, userId |-> "u1", amount |-> 1,
      date |-> [y |-> 2024, m |-> 2, d |-> 29, ms |-> MsPerDay - 1000]],
     [id |-> 4, userId |-> "u1", amount |-> 1, date |-> MkDate(2023, 12, 31)],
     [id |-> 5, userId |-> "u2", amount |-> 2, date |-> MkDate(2024, 3, 10)]}

InitSeries ==
    \E kept \in SUBSET SeriesLedger :
        /\ expenses = kept
        /\ budgets =
              {[NewBudget(1, "u1", "2024-01", 1) EXCEPT
                   !.spent = SumAmounts(ExpensesIn(kept, "u1", "2024-01"))],
               [id |-> 2, userId |-> "u1", month |-> "2024-02",
                spent |-> SumAmounts(ExpensesIn(kept, "u1", "2024-02"))],
               [id |-> 3, userId |-> "u1", month |-> "2023-12",
                spent |-> SumAmounts(ExpensesIn(kept, "u1", "2023-12"))],
               [id |-> 4, userId |-> "u2", month |-> "2024-03",
                spent |-> SumAmounts(ExpensesIn(kept, "u2", "2024-03"))]}
        /\ nextEid = 6
        /\ nextBid = 5
        /\ started = 0
        /\ pc = [p \in Procs |-> "idle"]
        /\ req = [p \in Procs |-> NoReq]
        /\ loc = [p \in Procs |-> NoLoc]
        /\ last = NoReq
        /\ served = <<>>
        /\ track = [j \in 1..5 |->
                      LET e == CHOOSE x \in SeriesLedger : x.id = j
                      IN  [user |-> e.userId, month |-> MonthOf(e.date),
                           had |-> j \in {1, 2},
                           base |-> IF j = 2 THEN 1 ELSE 0,
                           clean |-> TRUE]]

NextSeries ==
    \E p \in Procs :
        \/ Alone(p) /\ MonthlyArrive(p)
        \/ Alone(p) /\ MonthlyAggregate(p)
        \/ Alone(p) /\ MonthlyBudget(p)

SpecSeries == InitSeries /\ [][NextSeries]_vars

\* The category breakdown on its own: user u1 has a Food & Dining expense
\* of 1..MaxPctSpent in the current month, maybe a Travel expense of
\* 1..MaxPctSpent, and maybe the three of a second Food & Dining expense, an
\* expense of the next month and another user's expense; MaxReads requests
\* then read the breakdown.
MaxReads == 1
\* The requests that run against one expense.
MaxPair == 2
CategoryExtras ==
    {[id |-> 3, userId |-> "u1", amount |-> 1, date |-> MkDate(2024, 1, 10),
      category |-> "Food & Dining"],
     [id |-> 4, userId |-> "u1", amount |-> 2, date |-> MkDate(2024, 2, 10),
      category |-> "Other"],
     [id |-> 5, userId |-> "u2", amount |-> 1, date |-> MkDate(2024, 1, 15),
      category |-> "Shopping"]}

InitCategory ==
    \E a \in 1..MaxPctSpent, b \in 0..MaxPctSpent,
       extra \in {{}, CategoryExtras} :
        /\ expenses =
              {[id |-> 1, userId |-> "u1", amount |-> a,
                date |-> MkDate(2024, 1, 15), category |-> "Food & Dining"]}
                \cup {[id |-> 2, userId |-> "u1", amount |-> b,
                        date |-> MkDate(2024, 1, 15), category |-> "Travel"]
                       : x \in {b} \ {0}}
                \cup extra
        /\ budgets =
              {[id |-> k.id, userId |-> k.u, month |-> k.m,
                spent |-> SumAmounts(ExpensesIn(expenses, k.u, k.m))]
               : k \in {x \in {[id |-> 1, u |-> "u1", m |-> "2024-01"],
                                 [id |-> 2, u |-> "u1", m |-> "2024-02"],
                                 [id |-> 3, u |-> "u2", m |-> "2024-01"]} :
                             ExpensesIn(expenses, x.u, x.m) # {}}}
        /\ nextEid = 6
        /\ nextBid = 4
        /\ started = MaxRequests - MaxReads
        /\ pc = [p \in Procs |-> "idle"]
        /\ req = [p \in Procs |-> NoReq]
        /\ loc = [p \in Procs |-> NoLoc]
        /\ last = NoReq
        /\ served = <<>>
        /\ track = [j \in 1..5 |->
                      [user |-> IF j = 5 THEN "u2" ELSE "u1",
                       month |-> IF j = 4 THEN "2024-02" ELSE "2024-01",
                       had |-> j \in {2, 3}, base |-> 0, clean |-> FALSE]]

NextCategory == \E p \in Procs : Category(p)

SpecCategory == InitCategory /\ [][NextCategory]_vars

\* The summary on its own: user u1 has a Food & Dining expense of
\* 0..MaxPctSpent (0: none) in the current month and a Travel expense of
\* 0..MaxPctSpent in the month before, and maybe the three of an expense in
\* the last millisecond of the month before, one two months back and
\* another user's; MaxReads requests then read the summary.
SummaryExtras ==
    {[id |-> 3, userId |-> "u1", amount |-> 1,
      date |-> [y |-> 2023, m |-> 12, d |-> 31, ms |-> MsPerDay - 1],
      category |-> "Other"],
     [id |-> 4, userId |-> "u1", amount |-> 1, date |-> MkDate(2023, 11, 30),
      category |-> "Other"],
     [id |-> 5, userId |-> "u2", amount |-> 2, date |-> MkDate(2024, 1, 15),
      category |-> "Shopping"]}

InitSummary ==
    \E a \in 0..MaxPctSpent, b \in 0..MaxPctSpent,
       extra \in {{}, SummaryExtras} :
        /\ expenses =
              {[id |-> 1, userId |-> "u1", amount |-> a,
                date |-> MkDate(2024, 1, 15), category |-> "Food & Dining"]
               : x \in {a} \ {0}}
                \cup {[id |-> 2, userId |-> "u1", amount |-> b,
                        date |-> MkDate(2023, 12, 20), category |-> "Travel"]
                       : x \in {b} \ {0}}
                \cup extra
        /\ budgets =
              {[id |-> k.id, userId |-> k.u, month |-> k.m,
                spent |-> SumAmounts(ExpensesIn(expenses, k.u, k.m))]
               : k \in {x \in {[id |-> 1, u |-> "u1", m |-> "2024-01"],
                                 [id |-> 2, u |-> "u1", m |-> "2023-12"],
                                 [id |-> 3, u |-> "u1", m |-> "2023-11"],
                                 [id |-> 4, u |-> "u2", m |-> "2024-01"]} :
                             ExpensesIn(expenses, x.u, x.m) # {}}}
        /\ nextEid = 6
        /\ nextBid = 5
        /\ started = MaxRequests - MaxReads
        /\ pc = [p \in Procs |-> "idle"]
        /\ req = [p \in Procs |-> NoReq]
        /\ loc = [p \in Procs |-> NoLoc]
        /\ last = NoReq
        /\ served = <<>>
        /\ track = [j \in 1..5 |->
                      [user |-> IF j = 5 THEN "u2" ELSE "u1",
                       month |-> IF j = 4 THEN "2023-11"
                                 ELSE IF j \in {2, 3} THEN "2023-12"
                                 ELSE "2024-01",
                       had |-> j = 3, base |-> 0, clean |-> FALSE]]

NextSummary ==
    \E p \in Procs :
        \/ SummaryCurrent(p) \/ SummaryBudget(p)
        \/ SummaryTop(p) \/ SummaryPrevious(p)

SpecSummary == InitSummary /\ [][NextSummary]_vars

\* The trends on their own: any of six expenses are in the ledger, on the
\* Sunday that begins the current week, on the Saturday before it at 18:00,
\* on a Wednesday, on the Sunday twelve weeks back, before that, and another
\* user's; MaxReads requests then read the trends.
TrendLedger ==
    {[id |-> 1, userId |-> "u1", amount |-> 1, date |-> MkDate(2024, 1, 14)],
     [id |-> 2, userId |-> "u1", amount |-> 2,
      date |-> [y |-> 2024, m |-> 1, d |-> 13, ms |-> 18 * 3600000]],
     [id |-> 3, userId |-> "u1", amount |-> 2, date |-> MkDate(2024, 1, 10)],
     [id |-> 4, userId |-> "u1", amount |-> 1, date |-> MkDate(2023, 10, 29)],
     [id |-> 5, userId |-> "u1", amount |-> 1, date |-> MkDate(2023, 10, 20)],
     [id |-> 6, userId |-> "u2", amount |-> 2, date |-> MkDate(2024, 1, 10)]}

InitTrends ==
    \E kept \in SUBSET TrendLedger :
        /\ expenses = kept
        /\ budgets =
              {[id |-> k.id, userId |-> k.u, month |-> k.m,
                spent |-> SumAmounts(ExpensesIn(kept, k.u, k.m))]
               : k \in {[id |-> 1, u |-> "u1", m |-> "2024-01"],
                        [id |-> 2, u |-> "u1", m |-> "2023-10"],
                        [id |-> 3, u |-> "u2", m |-> "2024-01"]}}
        /\ nextEid = 7
        /\ nextBid = 4
        /\ started = MaxRequests - MaxReads
        /\ pc = [p \in Procs |-> "idle"]
        /\ req = [p \in Procs |-> NoReq]
        /\ loc = [p \in Procs |-> NoLoc]
        /\ last = NoReq
        /\ served = <<>>
        /\ track = [j \in 1..6 |->
                      LET e == CHOOSE x \in TrendLedger : x.id = j
                      IN  [user |-> e.userId, month |-> MonthOf(e.date),
                           had |-> j \in {2, 3, 5}, base |-> 0,
                           clean |-> FALSE]]

NextTrends == \E p \in Procs : TrendsArrive(p) \/ TrendsAggregate(p)

SpecTrends == InitTrends /\ [][NextTrends]_vars

\* The expense mutations, one request after the other, over a store that may
\* reject a budget increment.
NextFaults ==
    \E p \in Procs :
        \/ Alone(p) /\ AddSave(p)
        \/ Alone(p) /\ AddInc(p)
        \/ Alone(p) /\ AddIncFail(p)
        \/ Alone(p) /\ UpdFind(p)
        \/ Alone(p) /\ UpdWrite(p)
        \/ Alone(p) /\ UpdInc(p)
        \/ Alone(p) /\ UpdIncFail(p)
        \/ Alone(p) /\ DelFind(p)
        \/ Alone(p) /\ DelRemove(p)
        \/ Alone(p) /\ DelInc(p)
        \/ Alone(p) /\ DelIncFail(p)

SpecFaults == Init /\ [][NextFaults]_vars

\* Only budget Sets, budget Gets and expense Adds arrive, concurrently.
NextUpserts ==
    \E p \in Procs :
        \/ AddSave(p) \/ AddInc(p)
        \/ SetFind(p) \/ SetSave(p)
        \/ GetFind(p) \/ GetSave(p)

SpecUpserts == Init /\ [][NextUpserts]_vars

\* Budget Set and Get with any month text, and the expense mutations, one
\* request at a time.
NextMonths ==
    \E p \in Procs :
        \/ Alone(p) /\ SetAny(p)
        \/ Alone(p) /\ SetSave(p)
        \/ Alone(p) /\ GetAny(p)
        \/ Alone(p) /\ GetSave(p)
        \/ Alone(p) /\ AddSave(p)
        \/ Alone(p) /\ AddInc(p)
        \/ Alone(p) /\ UpdFind(p)
        \/ Alone(p) /\ UpdWrite(p)
        \/ Alone(p) /\ UpdInc(p)
        \/ Alone(p) /\ DelFind(p)
        \/ Alone(p) /\ DelRemove(p)
        \/ Alone(p) /\ DelInc(p)

SpecMonths == Init /\ [][NextMonths]_vars

\* Two requests on one expense: the store after user u1 has added expense 1
\* (and maybe a second expense of the same month), the month's row holding
\* the ledger total, with a limit set or not.
InitPair ==
    \E a \in Amounts, b \in 0..1, limit \in Opt(Limits) :
        /\ expenses =
              {[id |-> 1, userId |-> "u1", amount |-> a, date |-> Now]}
                \cup {[id |-> 2, userId |-> "u1", amount |-> b, date |-> Now]
                       : x \in {b} \ {0}}
        /\ budgets =
              {[id |-> 1, userId |-> "u1", month |-> getCurrentMonth,
                spent |-> a + b]
               : x \in {limit} \cap {{}}}
                \cup {[NewBudget(1, "u1", getCurrentMonth, l)
                         EXCEPT !.spent = a + b] : l \in limit}
        /\ nextEid = 3
        /\ nextBid = 2
        /\ started = MaxRequests - MaxPair
        /\ pc = [p \in Procs |-> "idle"]
        /\ req = [p \in Procs |-> NoReq]
        /\ loc = [p \in Procs |-> NoLoc]
        /\ last = NoReq
        /\ served = <<>>
        /\ track = [j \in 1..2 |->
                      [user |-> "u1", month |-> getCurrentMonth,
                       had |-> j = 2, base |-> IF j = 1 THEN b ELSE a,
                       clean |-> TRUE]]

\* The request p has just read: user u1's, on expense 1, changing at most
\* the amount.
OnPair(p) ==
    LET r == IF pc'[p] = "idle" THEN last' ELSE req'[p]
    IN  r.user = "u1" /\ r.id = 1 /\ r.date = {} /\ r.owner = {}

\* Updates and Deletes of expense 1, their steps interleaved.
NextPair ==
    \E p \in Procs :
        \/ UpdFind(p) /\ OnPair(p)
        \/ UpdWrite(p)
        \/ UpdInc(p)
        \/ DelFind(p) /\ OnPair(p)
        \/ DelRemove(p)
        \/ DelInc(p)

SpecPair == InitPair /\ [][NextPair]_vars

\* Adds of any body, one after the other.
NextValidation ==
    \E p \in Procs :
        \/ Alone(p) /\ AddAny(p)
        \/ Alone(p) /\ AddInc(p)

SpecValidation == Init /\ [][NextValidation]_vars

(***************************************************************************)
(* Properties.                                                             *)
(***************************************************************************)
\* The Add whose answer is `last`: the expense it created and its budget key.
LastMonth == MonthOf(OrElse(last.date, Now))
LastAdded == Quiet /\ last.op = "add" /\ last.status = 201

\* C1: whenever no request is in flight, every Budget row's spent equals the
\* sum of the amounts of that user's expenses dated in the row's month.
C1_SpentIsLedgerSum ==
    Quiet => \A b \in budgets :
                 b.spent = SumAmounts(ExpensesIn(expenses, b.userId, b.month))

\* C2: an Add with amount a and a date stores an expense whose amount is a,
\* and raises the spent of the Budget row of (user, month of the date) by
\* exactly a; no other Budget row changes.  Requests run one at a time.
C2_AddEffect ==
    [][\A p \in Procs :
        /\ (pc[p] = "idle" /\ pc'[p] = "add_inc") =>
              /\ \E e \in expenses' \ expenses :
                     /\ e.userId = req'[p].user
                     /\ e.amount = The(req'[p].amount)
                     /\ e.date = OrElse(req'[p].date, Now)
              /\ budgets' = budgets
        /\ (pc[p] = "add_inc" /\ pc'[p] = "idle") =>
              LET u == req[p].user
                  a == The(req[p].amount)
                  m == MonthOf(OrElse(req[p].date, Now))
                  others(rows) ==
                      {b \in rows : ~(b.userId = u /\ b.month = m)}
              IN  /\ last'.status = 201
                  /\ \E e \in expenses' : e.id = last'.id /\ e.amount = a
                  /\ FindBudget(budgets', u, m) # {}
                  /\ SpentOrZero(budgets', u, m)
                         = SpentOrZero(budgets, u, m) + a
                  /\ others(budgets') = others(budgets)]_vars

\* An Add was answered whose row held spent > 0 before, another row existing.
C2_Witness ==
    /\ LastAdded
    /\ track[last.id].base > 0
    /\ SpentOrZero(budgets, last.user, LastMonth)
           = track[last.id].base + The(last.amount)
    /\ \E b \in budgets : b.month # LastMonth

\* C3: when requests run one at a time, after a Delete of an expense whose
\* month no other operation touched since its Add, the row's spent is what
\* it was before the Add.
C3_AddThenDelete ==
    (Quiet /\ last.op = "delete" /\ last.status = 200
           /\ track[last.id].clean) =>
        SpentOrZero(budgets, track[last.id].user, track[last.id].month)
            = track[last.id].base

\* Such a Delete was answered, spent having been positive before the Add.
C3_Witness ==
    /\ Quiet /\ last.op = "delete" /\ last.status = 200
    /\ track[last.id].clean
    /\ track[last.id].base > 0
    /\ ExpenseById(expenses, last.id) = {}

\* C4: when requests run one at a time, the Adds, Updates and Deletes of an
\* expense kept in one month change that month's spent by the sum of their
\* signed deltas: the row holds what it held before the Add plus the amount
\* the expense has now (nothing once deleted), so an Update from a to b has
\* changed it by b - a.
C4_NetChange ==
    Quiet => \A j \in DOMAIN track :
                 track[j].clean =>
                     SpentOrZero(budgets, track[j].user, track[j].month)
                         = track[j].base + SumAmounts(ExpenseById(expenses, j))

\* An Update that changed the amount was answered, on a row that had spent.
C4_Witness ==
    /\ Quiet /\ last.op = "update" /\ last.status = 200
    /\ last.diff # 0
    /\ track[last.id].clean
    /\ track[last.id].base > 0
    /\ \E e \in ExpenseById(expenses, last.id) : {e.amount} = last.amount

\* The expenses saved by Adds that have not incremented the budget yet.
PendingAdds == UNION {loc[p].exp : p \in {q \in Procs : pc[q] = "add_inc"}}

\* C5: with concurrent Adds and nothing else, no increment is lost: each
\* (user, month) row holds the sum of the amounts of the Adds that have
\* incremented it (of all of them once all have completed), and exists as
\* soon as one has.
C5_NoLostIncrement ==
    \A u \in Users, m \in Months :
        LET done == ExpensesIn(expenses \ PendingAdds, u, m)
        IN  /\ SpentOrZero(budgets, u, m) = SumAmounts(done)
            /\ (FindBudget(budgets, u, m) # {}) <=> (done # {})

\* Two Adds on one absent row overlapped: the later one was answered while
\* the earlier one still stands before its increment.
C5_Witness ==
    \E p \in Procs :
        /\ pc[p] = "add_inc"
        /\ last.op = "add" /\ last.status = 201
        /\ last.id > The(loc[p].exp).id
        /\ last.user = req[p].user
        /\ LastMonth = MonthOf(The(loc[p].exp).date)
        /\ ~track[last.id].had

\* C6: an Add whose (user, month) row did not exist leaves a row with
\* spent = amount, limit = 0 and derived status "safe".
C6_ImplicitRow ==
    (LastAdded /\ ~track[last.id].had) =>
        \E b \in FindBudget(budgets, last.user, LastMonth) :
            /\ b.spent = The(last.amount)
            /\ HasLimit(b) /\ b.limit = 0
            /\ status(b) = "safe"

\* C7: there is at most one Budget row per (user, month).
C7_OneRowPerKey ==
    \A b1 \in budgets, b2 \in budgets :
        (b1.userId = b2.userId /\ b1.month = b2.month) => b1 = b2

\* A Get's insert was rejected: the row it found absent exists by now.
C7_Witness ==
    /\ last.op = "get" /\ last.status = 500
    /\ FindBudget(budgets, last.user, OrElse(last.month, getCurrentMonth)) # {}

\* C8: every Budget row has spent >= 0.
C8_SpentNonNegative == \A b \in budgets : b.spent >= 0

\* The limit a row has; 0 for a row created by an expense write (C6).
LimitOrZero(b) == IF HasLimit(b) THEN b.limit ELSE 0

\* C9: every Budget row's remaining is max(0, limit - spent), a number that
\* is never negative, rows created by an expense write included.
C9_Remaining ==
    \A b \in budgets :
        /\ remaining(b) = JsNum(Max(0, LimitOrZero(b) - b.spent))
        /\ remaining(b).v >= 0

\* spent / limit * 100 rounded to the nearest whole number, halves up.
RoundHalfUp(spent, limit) == (200 * spent + limit) \div (2 * limit)

\* C10: the spendingPercentage a budget is returned with is 0 when its limit
\* is 0, and otherwise spent / limit * 100 rounded half up (not a number
\* when the row holds no limit to divide by).
C10_SpendingPercentage ==
    (last.op = "get" /\ last.status = 200) =>
        \A v \in last.view :
            IF ~HasLimit(v) THEN v.spendingPercentage = NaN
            ELSE (v.spent >= 0 /\ v.limit >= 0) =>
                     v.spendingPercentage
                         = JsNum(IF v.limit = 0 THEN 0
                                 ELSE RoundHalfUp(v.spent, v.limit))

\* C11: a budget's status is "danger" exactly when its spendingPercentage is
\* >= 90, "warning" exactly when it is 80..89 and "safe" exactly when it is
\* below 80; with limit 100 and spent 95 it is returned with
\* spendingPercentage 95 and status "danger".
C11_StatusThresholds ==
    (last.op = "get" /\ last.status = 200) =>
        \A v \in last.view :
            LET pct == v.spendingPercentage.v
            IN  /\ ~v.spendingPercentage.nan
                /\ (v.status = "danger") <=> (pct >= 90)
                /\ (v.status = "warning") <=> (pct >= 80 /\ pct <= 89)
                /\ (v.status = "safe") <=> (pct < 80)
                /\ (HasLimit(v) /\ v.limit = 100 /\ v.spent = 95) =>
                       (pct = 95 /\ v.status = "danger")

\* The tier an alert for percentage pct belongs to.
TierOf(pct) ==
    IF pct >= 100 THEN [type |-> "danger", tier |-> "exceeded"]
    ELSE IF pct >= 90 THEN [type |-> "danger", tier |-> "almost exceeded"]
    ELSE IF pct >= 80 THEN [type |-> "warning", tier |-> "slow down"]
    ELSE [type |-> "info", tier |-> "at"]

\* C12: Alerts returns at most one alert: none when the user's current-month
\* budget is absent, has limit 0 or has spendingPercentage < 70, and otherwise
\* exactly one, of the highest tier the percentage reaches; hasAlerts is true
\* exactly when an alert is returned.
C12_OneAlert ==
    (last.op = "alerts" /\ last.status = 200) =>
        LET row == FindBudget(budgets, last.user, getCurrentMonth)
            pct == spendingPercentage(The(row)).v
        IN  /\ Len(last.alerts) <= 1
            /\ last.hasAlerts <=> (Len(last.alerts) = 1)
            /\ IF row = {} \/ LimitOrZero(The(row)) = 0 \/ pct < 70
               THEN last.alerts = <<>>
               ELSE /\ Len(last.alerts) = 1
                    /\ last.alerts[1].type = TierOf(pct).type
                    /\ last.alerts[1].tier = TierOf(pct).tier
                    /\ last.alerts[1].percentage = JsNum(pct)

\* An alert of the 90..99 tier was returned.
C12_Witness ==
    /\ last.op = "alerts" /\ last.status = 200
    /\ last.hasAlerts
    /\ Len(last.alerts) = 1
    /\ last.alerts[1].tier = "almost exceeded"
    /\ last.alerts[1].percentage.v >= 90 /\ last.alerts[1].percentage.v <= 99

\* C13: a Set's write leaves every other Budget row and every expense as it
\* is.  On a row that exists it changes at most the row's limit, to the given
\* one: the spent stays as it is at the write, whatever increments came
\* between the Set's read and its write; when the row is as the Set read it
\* (and valid) the Set answers 200 and the row has the given limit.  When no
\* row exists it creates one with the given limit and spent = 0.
C13_SetFrame ==
    [][\A p \in Procs :
        (pc[p] = "set_save" /\ pc'[p] = "idle") =>
            LET u   == req[p].user
                m   == OrElse(req[p].month, getCurrentMonth)
                row == FindBudget(budgets, u, m)
                others(rows) == {b \in rows : ~(b.userId = u /\ b.month = m)}
            IN  /\ others(budgets') = others(budgets)
                /\ expenses' = expenses
                /\ row # {} =>
                       \E b \in FindBudget(budgets', u, m) :
                           /\ DOMAIN b \ {"limit"} = DOMAIN The(row) \ {"limit"}
                           /\ \A f \in DOMAIN b \ {"limit"} : b[f] = The(row)[f]
                           /\ b.spent = The(row).spent
                           /\ \/ b = The(row)
                              \/ HasLimit(b) /\ b.limit = req[p].limit
                           /\ (loc[p].bud = row /\ b.spent >= 0) =>
                                  /\ last'.status = 200
                                  /\ HasLimit(b) /\ b.limit = req[p].limit
                           /\ last'.status # 200 => budgets' = budgets
                /\ (row = {} /\ loc[p].bud = {}) =>
                       /\ last'.status = 200
                       /\ budgets' = budgets \cup
                              {[id |-> nextBid, userId |-> u, month |-> m,
                                limit |-> req[p].limit, spent |-> 0]}]_vars

\* A Set was answered on a row whose spent had moved since the Set read it.
C13_Witness ==
    /\ last.op = "set" /\ last.status = 200
    /\ \E v \in last.view :
           \E b \in FindBudget(budgets, last.user,
                               OrElse(last.month, getCurrentMonth)) :
               /\ v.id = b.id
               /\ v.spent # b.spent
               /\ b.limit = last.limit

\* C14: when requests run one at a time, a budget Get for a (user, month)
\* without a row stores a row with limit 0 and spent 0 and returns it, and a
\* Get for a (user, month) with a row returns that row and changes nothing
\* stored (so a Get after a Get changes nothing).
C14_GetEffect ==
    [][\A p \in Procs :
        /\ (pc = pc' /\ started' # started /\ last'.op = "get") =>
              LET row == FindBudget(budgets, last'.user,
                                    OrElse(last'.month, getCurrentMonth))
              IN  /\ row # {}
                  /\ last'.status = 200
                  /\ \E v \in last'.view :
                         \A f \in DOMAIN The(row) : v[f] = The(row)[f]
                  /\ budgets' = budgets /\ expenses' = expenses
        /\ (pc[p] = "idle" /\ pc'[p] = "get_save") =>
              /\ FindBudget(budgets, req'[p].user,
                            OrElse(req'[p].month, getCurrentMonth)) = {}
              /\ budgets' = budgets /\ expenses' = expenses
        /\ (pc[p] = "get_save" /\ pc'[p] = "idle") =>
              LET created == [id |-> nextBid, userId |-> req[p].user,
                              month |-> OrElse(req[p].month, getCurrentMonth),
                              limit |-> 0, spent |-> 0]
              IN  /\ last'.status = 200
                  /\ created \notin budgets
                  /\ budgets' = budgets \cup {created}
                  /\ FindBudget(budgets', created.userId, created.month)
                         = {created}
                  /\ \E v \in last'.view :
                         \A f \in DOMAIN created : v[f] = created[f]
                  /\ expenses' = expenses]_vars

\* The first request was a Get: it created the row it returned.
C14_Witness ==
    /\ Quiet /\ started = 1
    /\ last.op = "get" /\ last.status = 200
    /\ \E b \in budgets :
           /\ budgets = {b}
           /\ b.limit = 0 /\ b.spent = 0
           /\ \E v \in last.view : v.id = b.id /\ v.limit = 0 /\ v.spent = 0

\* The calendar month before ym.
PrevMonth(ym) ==
    IF ym.m = 1 THEN [y |-> ym.y - 1, m |-> 12] ELSE [y |-> ym.y, m |-> ym.m - 1]

RECURSIVE MonthsBack(_, _)
MonthsBack(ym, n) == IF n = 0 THEN ym ELSE MonthsBack(PrevMonth(ym), n - 1)

\* C15: History returns exactly 12 entries, for the 12 consecutive calendar
\* months that end with the current month, oldest first, whatever rows exist;
\* a month with a stored row shows that row's limit and spent, a month
\* without one shows limit 0, spent 0 and status "safe"; History stores
\* nothing.
C15_History ==
    /\ [](last.op = "history" =>
            LET now == The(last.date)
            IN  /\ last.status = 200
                /\ Len(last.history) = 12
                /\ \A k \in 1..12 :
                       LET e     == last.history[k]
                           month == MonthOf(MonthsBack([y |-> now.y,
                                                        m |-> now.m], 12 - k))
                           row   == FindBudget(budgets, last.user, month)
                       IN  /\ e.month = month
                           /\ row # {} =>
                                  /\ e.spent = The(row).spent
                                  /\ e.limit = IF HasLimit(The(row))
                                               THEN {The(row).limit} ELSE {}
                           /\ row = {} =>
                                  /\ e.limit = {0} /\ e.spent = 0
                                  /\ e.status = "safe")
    /\ [][last'.op = "history" =>
              (budgets' = budgets /\ expenses' = expenses)]_vars

\* A history that crosses a year boundary was returned, with a stored row in
\* one month and none in another.
C15_Witness ==
    /\ last.op = "history" /\ last.status = 200
    /\ last.history[1].month = "2023-02"
    /\ last.history[12].month = "2024-01"
    /\ last.history[1].limit = {1} /\ last.history[1].id # {}
    /\ last.history[2].id = {}

\* C16: every expense belongs to the user who created it, after any Updates.
C16_OwnerImmutable ==
    \A e \in expenses : e.userId = track[e.id].user

\* C17: an expense Get, Update or Delete for an id under which the user has
\* no expense (none exists, or it is another user's) is answered 404 at once,
\* and no Expense and no Budget row is created, changed or removed.
ByIdOps == {"expense", "update", "delete"}
C17_NotFound ==
    [][\A u \in Users, id \in 0..nextEid :
          (/\ FindExpense(expenses, id, u) = {}
           /\ started' # started
           /\ \/ \E p \in Procs : /\ pc[p] = "idle" /\ pc'[p] # "idle"
                                  /\ req'[p].op \in ByIdOps
                                  /\ req'[p].user = u /\ req'[p].id = id
              \/ /\ pc' = pc /\ last'.op \in ByIdOps
                 /\ last'.user = u /\ last'.id = id)
          => /\ pc' = pc
             /\ last'.status = 404
             /\ expenses' = expenses
             /\ budgets' = budgets]_vars

\* C18: an Add whose category is outside the 11 values, or whose amount is
\* not positive, or whose amount exceeds 1,000,000, is answered 400 with an
\* error for each violated field, and expenses and budgets stay as they were.
C18_AddRejected ==
    [][\A p \in Procs :
          LET r   == IF pc'[p] = "idle" THEN last' ELSE req'[p]
              a   == CHOOSE x \in r.amount : TRUE
              bad == {f \in {"category"} : r.category \notin Categories}
                        \cup {f \in {"amount"} : a <= 0 \/ a > 1000000}
          IN  (/\ pc[p] = "idle" /\ started' # started
               /\ \A q \in Procs \ {p} : pc'[q] = pc[q]
               /\ r.op = "add" /\ bad # {})
              => /\ pc'[p] = "idle"
                 /\ last'.status = 400
                 /\ last'.errors = bad
                 /\ expenses' = expenses
                 /\ budgets' = budgets]_vars

\* C19: on a fixed ledger, every List answer holds only expenses of the user
\* that match the filter, ordered by date descending then creation time
\* descending, at most pageSize of them; totalItems is the number of matches
\* and totalPages its quotient by pageSize, rounded up; a page beyond
\* totalPages is empty; and the pages of one query hold no expense twice and,
\* once pages 1..totalPages are all served, every match.
ListMatches(u, month) ==
    {e \in expenses : e.userId = u
                        /\ (month # {} => MonthOf(e.date) = The(month))}
SameQuery(g, h) ==
    g.user = h.user /\ g.month = h.month /\ g.limit = h.limit
ItemsOf(h) == {h.items[i] : i \in 1..Len(h.items)}
C19_Pagination ==
    \A k \in 1..Len(served) :
        LET h     == served[k]
            match == ListMatches(h.user, h.month)
            same  == {j \in 1..Len(served) : SameQuery(served[j], h)}
        IN  /\ h.status = 200
            /\ ItemsOf(h) \subseteq match
            /\ Len(h.items) <= h.limit
            /\ \A i, j \in 1..Len(h.items) :
                  i < j => /\ h.items[i] # h.items[j]
                           /\ SortBefore(h.items[i], h.items[j])
            /\ h.totalItems = Cardinality(match)
            /\ (h.totalPages - 1) * h.limit < h.totalItems
            /\ h.totalItems <= h.totalPages * h.limit
            /\ h.page > h.totalPages => h.items = <<>>
            /\ \A j \in same :
                  served[j].page # h.page
                      => ItemsOf(served[j]) \cap ItemsOf(h) = {}
            /\ {served[j].page : j \in same} = 1..h.totalPages
                  => UNION {ItemsOf(served[j]) : j \in same} = match

\* C20: the monthly series of a year has 12 entries, January to December in
\* order; its totalSpent is the sum of the amounts of all of the user's
\* expenses dated in that year; and each entry's spent is the sum of exactly
\* the expenses whose month-of(date) is the entry's month key.
C20_MonthlySeries ==
    (last.op = "monthly" /\ last.status = 200) =>
        LET y == IF last.year = {} THEN Now.y
                 ELSE CHOOSE v \in last.year : TRUE
        IN  /\ Len(last.monthlyData) = 12
            /\ \A m \in 1..12 :
                  /\ last.monthlyData[m].month = MonthOf(MkDate(y, m, 1))
                  /\ last.monthlyData[m].spent =
                        SumAmounts(ExpensesIn(expenses, last.user,
                                              last.monthlyData[m].month))
            /\ last.totalSpent =
                  SumAmounts({e \in expenses : e.userId = last.user
                                                  /\ e.date.y = y})

\* C21: the category breakdown has one entry per category with expenses of
\* the user in the window, sorted by total descending; the totals sum to
\* totalSpent and the counts to totalTransactions; each percentage is
\* categoryTotal / totalSpent * 100 rounded to the nearest whole number; the
\* percentages sum to 100 within half a point per category when totalSpent is
\* positive, and all are 0 when it is 0.
RECURSIVE SumPercentage(_)
SumPercentage(data) ==
    IF data = <<>> THEN 0
    ELSE SumPercentage(SubSeq(data, 1, Len(data) - 1))
             + data[Len(data)].percentage
C21_Window ==
    {e \in expenses :
        /\ e.userId = last.user
        /\ IF last.month # {} THEN MonthOf(e.date) = The(last.month)
           ELSE IF last.year # {} THEN e.date.y = The(last.year)
           ELSE MonthOf(e.date) = MonthOf(Now)}
C21_CategoryBreakdown ==
    (last.op = "category" /\ last.status = 200) =>
        LET data == last.categoryBreakdown
            n    == Len(data)
        IN  /\ {data[i].category : i \in 1..n}
                  = {e.category : e \in C21_Window}
            /\ n = Cardinality({e.category : e \in C21_Window})
            /\ \A i \in 1..n :
                  LET es == {e \in C21_Window : e.category = data[i].category}
                  IN  /\ data[i].amount = SumAmounts(es)
                      /\ data[i].count = Cardinality(es)
                      /\ data[i].percentage =
                            IF last.totalSpent > 0
                            THEN RoundHalfUp(data[i].amount, last.totalSpent)
                            ELSE 0
            /\ \A i, j \in 1..n : i < j => data[i].amount >= data[j].amount
            /\ last.totalSpent = SumAmounts(C21_Window)
            /\ last.totalTransactions = Cardinality(C21_Window)
            /\ last.totalSpent > 0
                  => /\ 2 * (SumPercentage(data) - 100) <= n
                     /\ 2 * (100 - SumPercentage(data)) <= n

\* C22: the summary's trend is "increase" exactly when the current month's
\* total is greater than the previous month's, "decrease" exactly when it is
\* smaller and "stable" exactly when they are equal; changePercentage is 0
\* when the previous total is 0.
C22_Trend ==
    (last.op = "summary" /\ last.status = 200) =>
        LET current  == SumAmounts(ExpensesIn(expenses, last.user,
                                              MonthOf(Now)))
            previous == SumAmounts(ExpensesIn(expenses, last.user,
                                              MonthOf(PrevMonth(Now))))
        IN  \A c \in last.comparison :
                /\ c.trend = "increase" <=> current > previous
                /\ c.trend = "decrease" <=> current < previous
                /\ c.trend = "stable" <=> current = previous
                /\ previous = 0 => c.changeHundredths = 0

\* C23: weekly trends are 12 buckets, oldest first; bucket k covers the whole
\* Sunday-to-Saturday calendar week that lies 12 - k weeks before the current
\* one, so its spent is the sum of the user's expenses dated on those seven
\* days; and averageSpent is the buckets' total divided by 12.
C23_WeekDays(now, k) ==
    LET sunday == DayIndex(now) - (DayIndex(now) % 7) - 7 * (12 - k)
    IN  sunday..(sunday + 6)
C23_WeeklyTrends ==
    (last.op = "trends" /\ last.status = 200 /\ last.period = "weekly") =>
        LET now == CHOOSE d \in last.date : TRUE
        IN  /\ Len(last.trends) = 12
            /\ \A k \in 1..12 :
                  last.trends[k].spent =
                      SumAmounts({e \in expenses :
                          /\ e.userId = last.user
                          /\ DayIndex(e.date) \in C23_WeekDays(now, k)})
            /\ last.averageSpent = <<SumSpent(last.trends), 12>>

\* C24: when the budget increment of an expense Add, Update or Delete fails,
\* the request is answered with an error (500), the expense stays as the
\* request wrote it (added, updated, deleted), no Budget row changes, and
\* afterwards nothing happens until the next request arrives: no retry.
IncSteps == {"add_inc", "upd_inc", "del_inc"}
C24_NoRollbackNoRetry ==
    /\ [][\A p \in Procs :
            (/\ pc[p] \in IncSteps /\ pc'[p] = "idle"
             /\ last'.status \notin {200, 201})
            => /\ last'.status = 500
               /\ budgets' = budgets
               /\ expenses' = expenses
               /\ pc[p] = "add_inc" => loc[p].exp \subseteq expenses'
               /\ pc[p] = "upd_inc"
                     => ExpenseById(expenses', req[p].id) = loc[p].exp
               /\ pc[p] = "del_inc"
                     => ExpenseById(expenses', req[p].id) = {}]_vars
    /\ [][Quiet => started' = started + 1]_vars
\* An Add whose increment failed: the expense is in the ledger and its
\* month's budget does not count it.
C24_Witness ==
    /\ Quiet /\ last.op = "add" /\ last.status = 500
    /\ \E e \in expenses :
          /\ e.id = last.id
          /\ SpentOrZero(budgets, e.userId, MonthOf(e.date))
                < SumAmounts(ExpensesIn(expenses, e.userId, MonthOf(e.date)))

\* C25: an Update writes budgets in its increment step only; that step adds
\* the amount difference to spent of (user, month of the new date) and leaves
\* every other Budget row, the old month's included, as it was; an Update
\* whose amount difference is 0 ends at its write step and so writes no
\* Budget row.
C25_UpdateMonth ==
    [][\A p \in Procs :
          /\ (pc[p] = "idle" /\ pc'[p] = "upd_write") => budgets' = budgets
          /\ (started' # started /\ pc' = pc /\ last'.op = "update")
                => budgets' = budgets
          /\ pc[p] = "upd_write"
                => /\ budgets' = budgets
                   /\ loc[p].diff = 0 => pc'[p] = "idle"
                   /\ pc'[p] = "upd_inc" => loc[p].diff # 0
          /\ (pc[p] = "upd_inc" /\ pc'[p] = "idle" /\ last'.status = 200)
                => LET u  == req[p].user
                       m2 == MonthOf((CHOOSE e \in loc[p].exp : TRUE).date)
                   IN  /\ SpentOrZero(budgets', u, m2)
                              = SpentOrZero(budgets, u, m2) + loc[p].diff
                       /\ {b \in budgets' : ~(b.userId = u /\ b.month = m2)}
                              = {b \in budgets : ~(b.userId = u /\ b.month = m2)}
      ]_vars
\* An expense added in one month was moved to another with a new amount: the
\* first month keeps the old amount, the new month holds the difference.
C25_Witness ==
    /\ Quiet /\ started = 2
    /\ last.op = "update" /\ last.status = 200 /\ last.diff # 0
    /\ \E e \in expenses :
          /\ e.id = last.id
          /\ MonthOf(e.date) # track[e.id].month
          /\ SpentOrZero(budgets, last.user, track[e.id].month)
                = e.amount - last.diff
          /\ SpentOrZero(budgets, last.user, MonthOf(e.date)) = last.diff

\* C26: a successful expense Delete increments spent of (user, month of the
\* expense's date) by -amount with upsert: the row exists afterwards, and
\* when it was absent it is created holding spent = -amount.
C26_DeleteUpserts ==
    [][\A p \in Procs :
          (pc[p] = "del_inc" /\ pc'[p] = "idle" /\ last'.status = 200)
          => LET e == CHOOSE x \in loc[p].exp : TRUE
                 u == req[p].user
                 m == MonthOf(e.date)
             IN  /\ FindBudget(budgets', u, m) # {}
                 /\ SpentOrZero(budgets', u, m)
                        = SpentOrZero(budgets, u, m) - e.amount]_vars

\* C27: under any interleaving of concurrent budget Sets, budget Gets and
\* expense Adds on a store that starts without rows, every request is
\* answered with success (200 or 201): no duplicate-key collision reaches a
\* caller.
C27_NoCollisionSurfaced ==
    last.op \in {"set", "get", "add"} => last.status \in {200, 201}

\* The month keys that name a calendar month: a four-digit year, a dash and
\* a month part from 01 to 12.
CalendarMonths ==
    {YearString(y) \o "-" \o PadStart2(m) : y \in ParseYears, m \in 1..12}

\* C28: every stored Budget row's month key names an actual calendar month
\* (four-digit year, month part between 01 and 12), after any sequence of
\* validated budget Sets and Gets and of expense mutations.
C28_CalendarMonthKeys == \A b \in budgets : b.month \in CalendarMonths

\* C29: when two mutating requests on the same expense (Update/Update,
\* Update/Delete or Delete/Delete) have run, their read, write and increment
\* steps interleaved in any way, the net change of the month's spent equals
\* the expense's final ledger amount (0 once deleted) minus its amount before
\* the two requests: spent, less what the month held besides the expense,
\* is the final amount, so the amount is subtracted at most once.
C29_ConcurrentNetChange ==
    (Quiet /\ started = MaxRequests) =>
        SpentOrZero(budgets, "u1", getCurrentMonth) - track[1].base
            = SumAmounts(ExpenseById(expenses, 1))

\* C30: Alerts returns the budget-exceeded alert (the >= 100 tier) only when
\* the current month's spent is greater than or equal to its limit, and the
\* amount that alert reports as exceeded equals spent - limit.
C30_ExceededAlert ==
    (last.op = "alerts" /\ last.status = 200) =>
        \A i \in DOMAIN last.alerts :
            last.alerts[i].tier = "exceeded" =>
                LET row == The(FindBudget(budgets, last.user, getCurrentMonth))
                IN  /\ HasLimit(row)
                    /\ row.spent >= row.limit
                    /\ last.alerts[i].exceededBy
                           = JsNum(row.spent - row.limit)

====
